---- MODULE Spec2Model ----
(***************************************************************************)
(* Instance lifecycle and messaging orchestrator (fillow + chatbot).       *)
(*                                                                         *)
(* The stored state is the relational store (Instance, Message,            *)
(* ChatbotContact rows), the external Bridge is the environment, and every *)
(* request handler, listener callback, management command and chatbot      *)
(* thread is a process that holds its own in-memory copy of the rows it    *)
(* read (a Django model object) and writes it back with save().            *)
(***************************************************************************)
EXTENDS Integers, Sequences, FiniteSets, TLC

None == "None"

\* ---------------------------------------------------------------- bounds
MaxNow == 1
MaxRows == 3

\* ------------------------------------------------------------- universes
Tenants == {"t1"}
Tokens == {"T1", "T2"}
Procs == {"p1", "p2"}
Phones == {"5511"}
NoDate == 0 - 1

STATUS_CHOICES == {"CREATED", "QR_SCANNED", "CONNECTED", "DISCONNECTED", "BAN"}
NodeStatuses == {"open", "close", "connecting"}
Fields == {"status", "token", "phone_connected"}

VARIABLES now, tenants, instances, messages, bridge, webhook, forwarded,
          whOpen, proc, spawned, contacts, task, chatbot, dispatch

\* The chatbot engine's own state and the handlers' own state.
engineVars == <<spawned, contacts, task, chatbot>>

vars == <<now, tenants, instances, messages, bridge, webhook, forwarded,
          whOpen, proc, engineVars, dispatch>>

Sessions == DOMAIN instances

\* ------------------------------------------------------ Identity and plan
is_plan_valid(u, t) ==
    IF ~u.plan THEN FALSE
    ELSE IF u.plan_end_date = NoDate THEN TRUE
    ELSE t < u.plan_end_date

\* --------------------------------------------------------- Instance store
NoRow == [exists |-> FALSE, owner |-> None, status |-> None, token |-> None,
          phone_connected |-> None]

NewRow(o) == [exists |-> TRUE, owner |-> o, status |-> "CREATED", token |-> None,
              phone_connected |-> None]

\* Instance.save(): the in-memory object after the override ran.
SaveLocal(local, valid) ==
    IF ~valid THEN [local EXCEPT !.status = "DISCONNECTED"] ELSE local

\* Instance.save(update_fields=fields): the stored row afterwards.
SaveRow(row, local, fields, valid) ==
    LET l == SaveLocal(local, valid) IN
    [row EXCEPT !.status = IF "status" \in fields THEN l.status ELSE @,
                !.token = IF "token" \in fields THEN l.token ELSE @,
                !.phone_connected = IF "phone_connected" \in fields
                                    THEN l.phone_connected ELSE @]

OwnerValid(row) == is_plan_valid(tenants[row.owner], now)

\* ------------------------------------------------------------ The Bridge
NoEntry == [present |-> FALSE, status |-> None, token |-> None, phoneNumber |-> None]

\* What GET /sessions can answer for one session: a transport or HTTP
\* failure, a payload that is not a list, or the list with the entry.
ListOutcomes(s) ==
    { [kind |-> "fail", entry |-> NoEntry],
      [kind |-> "notlist", entry |-> bridge[s]],
      [kind |-> "list", entry |-> bridge[s]] }

\* What GET /sessions/<id>/qr can answer: the Bridge reports the status
\* either raw (open/close) or already normalised.
QrStatuses(b) ==
    IF ~b.present THEN {None}
    ELSE IF b.status = "open" THEN {"open", "CONNECTED"}
    ELSE IF b.status = "close" THEN {"close", "DISCONNECTED"}
    ELSE {b.status}

QrOutcomes(s) ==
    { [ok |-> FALSE, status |-> None, qrCode |-> FALSE] } \cup
    { [ok |-> TRUE, status |-> st, qrCode |-> q] :
        st \in QrStatuses(bridge[s]),
        q \in IF bridge[s].present /\ bridge[s].status = "connecting"
              THEN BOOLEAN ELSE {FALSE} }

\* ------------------------------------------------- services.py self-heal
_map_node_status_to_django(status_value) ==
    IF status_value = None THEN None
    ELSE IF status_value = "open" THEN "CONNECTED"
    ELSE IF status_value = "close" THEN "DISCONNECTED"
    ELSE status_value

SyncReturnAlways(new_token) == TRUE

SyncReturn(new_token) == new_token # None

\* sync_instance_token: the in-memory instance afterwards, the fields it
\* saved and the value it returned, for one answer of GET /sessions.
sync_instance_token(inst, out) ==
    IF out.kind # "list" \/ ~out.entry.present
    THEN [inst |-> inst, changed |-> {}, ret |-> FALSE]
    ELSE
      LET target == out.entry
          new_token == target.token
          tokCh == new_token # None /\ new_token # inst.token
          i1 == IF tokCh THEN [inst EXCEPT !.token = new_token] ELSE inst
          node_status == _map_node_status_to_django(target.status)
          stCh == node_status # None /\ node_status # i1.status
          i2 == IF stCh THEN [i1 EXCEPT !.status = node_status] ELSE i1
          phone == target.phoneNumber
          phCh == phone # None /\ phone # i2.phone_connected
          i3 == IF phCh THEN [i2 EXCEPT !.phone_connected = phone] ELSE i2
          changed == (IF tokCh THEN {"token"} ELSE {}) \cup
                     (IF stCh THEN {"status"} ELSE {}) \cup
                     (IF phCh THEN {"phone_connected"} ELSE {})
      IN [inst |-> IF changed # {} THEN SaveLocal(i3, OwnerValid(inst)) ELSE i3,
          changed |-> changed,
          ret |-> SyncReturn(new_token)]

\* ----------------------------------------------------------- processes
NoEv == [type |-> None, status |-> None, token |-> None, me |-> <<>>,
         qr |-> FALSE, wamid |-> None, fromMe |-> FALSE, jid |-> None,
         content |-> None, pushName |-> None, key |-> None]

\* NodeBridge._request: the authentication headers of a call. A session
\* token that is set selects user mode; without one the admin key stays.
NoHeaders == [authorization |-> None, x_api_key |-> FALSE]

RequestHeaders(session_token) ==
    IF session_token # None
    THEN [authorization |-> session_token, x_api_key |-> FALSE]
    ELSE [authorization |-> None, x_api_key |-> TRUE]

\* NodeBridge._request: the HTTP requests one call makes.
RequestAttempts == 1

NoList == [kind |-> None, entry |-> NoEntry]
NoResp == [code |-> 0, status |-> None, token |-> None]

Idle == [pc |-> "idle", op |-> None, sess |-> None, inst |-> NoRow, ev |-> NoEv,
         listed |-> NoList, synced |-> None, syncTok |-> None, changed |-> FALSE,
         seen |-> None, rt |-> None, dup |-> FALSE, sends |-> 0, heals |-> 0,
         pre |-> FALSE, first |-> None, at |-> 0, hdr |-> NoHeaders,
         attempts |-> 0, posts |-> 0, resp |-> NoResp]

Set(p, rec) == [proc EXCEPT ![p] = rec]

\* whOpen[s] = T while the last write of the row of s is the webhook's save
\* of connection.update{status: open, token: T}.
OtherWrite(s) == [whOpen EXCEPT ![s] = None]

\* The engine state of a deployment in which no chatbot thread runs.
Jids == {"j1"}

\* ChatbotContact: no row yet.
NoContact == [exists |-> FALSE, push_name |-> None, is_blocked |-> FALSE]

\* The engine state of a fresh deployment: no chatbot thread started, no
\* contact known, the conversation counter at zero.
EngineIdle ==
    /\ spawned = <<>>
    /\ contacts = [j \in Jids |-> NoContact]
    /\ task = <<>>
    /\ chatbot = [active |-> TRUE, conversations_count |-> 0,
                  periodicity |-> "infinity", max_conversations |-> 1,
                  last_reset_date |-> 0, passed |-> 0,
                  simulate_typing |-> TRUE, allow_media_response |-> TRUE,
                  token_usage_type |-> "infinity", token_limit |-> 0,
                  current_tokens_used |-> 0, spent |-> 0]

\* DispatchInstanceState and the queue of a deployment without campaigns.
NoWorker == [pc |-> "idle", item |-> 0, pickedAt |-> 0, pickedNext |-> NoDate]

DispatchIdle ==
    dispatch = [next_available_at |-> NoDate, held |-> None, items |-> <<>>,
                sentAt |-> <<>>, worker |-> [w \in {} |-> NoWorker]]

\* ------------------------------------------------------- Bridge and time
BridgeStates ==
    { NoEntry,
      [present |-> TRUE, status |-> "connecting", token |-> None, phoneNumber |-> None],
      [present |-> TRUE, status |-> "close", token |-> None, phoneNumber |-> None] } \cup
    { [present |-> TRUE, status |-> "open", token |-> t, phoneNumber |-> "5511"] :
        t \in Tokens \cup {None} }

\* The Bridge changes a session on its own: connects, closes, drops the
\* session or mints a new token.
BridgeStep(s) ==
    /\ \E b \in BridgeStates : b # bridge[s] /\ bridge' = [bridge EXCEPT ![s] = b]
    /\ UNCHANGED <<now, tenants, instances, messages, webhook, forwarded, whOpen, proc, engineVars, dispatch>>

Tick ==
    /\ now < MaxNow
    /\ now' = now + 1
    /\ UNCHANGED <<tenants, instances, messages, bridge, webhook, forwarded, whOpen, proc, engineVars, dispatch>>

\* ------------------------------------- InternalWebhookReceiver.post
ConnEvents ==
    { [NoEv EXCEPT !.type = "qr", !.qr = TRUE, !.status = st] :
        st \in {None, "connecting"} } \cup
    { [NoEv EXCEPT !.type = "connection.update", !.status = "close"] } \cup
    { [NoEv EXCEPT !.type = "connection.update", !.status = "open", !.token = t,
                   !.me = m] :
        t \in Tokens \cup {None}, m \in { <<>>, <<"5511", "12">> } }

\* jid.split(":")[0]
JidNumber(me) == me[1]

\* Step 5 of post, up to the token assignment: the in-memory instance.
WhApplyEvent(inst, ev) ==
    LET i1 == IF ev.status # None
              THEN [inst EXCEPT !.status =
                       IF ev.status = "open" THEN "CONNECTED"
                       ELSE IF ev.status = "close" THEN "DISCONNECTED"
                       ELSE ev.status]
              ELSE inst
        i2 == IF ev.me # <<>>
              THEN [i1 EXCEPT !.phone_connected = JidNumber(ev.me)]
              ELSE i1
    IN IF ev.token # None THEN [i2 EXCEPT !.token = ev.token] ELSE i2

WhNeedsSync(inst, ev) ==
    /\ ev.token = None
    /\ inst.token = None
    /\ (inst.status = "CONNECTED" \/ ev.status \in {"open", "CONNECTED"})

WhApplyQr(inst, ev) ==
    IF ev.qr /\ inst.status # "CONNECTED"
    THEN [inst EXCEPT !.status = "QR_SCANNED"] ELSE inst

ShouldSendAny(conf, type) == conf.url

\* Step 7 of post: the events POSTed to the tenant callback.
WhShouldSend(conf, type) ==
    /\ conf.url
    /\ \/ type = "message" /\ conf.send_messages
       \/ type = "presence" /\ conf.send_presence
       \/ type = "connection.update"

WhForward(s, type) ==
    IF WhShouldSend(webhook[s], type) THEN forwarded \cup {<<s, type>>} ELSE forwarded

\* The requests.post calls of step 7: one, inside a try that swallows its
\* failure (the callback is down when webhook[s].up is false).
WhPosts(s, type) == IF WhShouldSend(webhook[s], type) THEN 1 ELSE 0

Processed == [code |-> 200, status |-> "processed", token |-> None]

\* Steps 1-3: a request that fails authentication, parsing or lookup.
NODE_API_KEY == "secret"

\* The x-api-key header of a request: the secret, another key, or none.
Keys == {NODE_API_KEY, "other", None}

\* The sessionId of a request: a stored session, an unknown one, or none.
SessionIds == Sessions \cup {"s9", None}

RejectNoAuth(key, json, sid) ==
    IF ~json THEN 400
    ELSE IF sid = None THEN 400
    ELSE IF ~(sid \in Sessions /\ instances[sid].exists) THEN 404
    ELSE 0

\* The answer of the checks that open InternalWebhookReceiver.post: the
\* code of the rejection, 0 when the request goes on.
WhRejectCode(key, json, sid) ==
    IF key # NODE_API_KEY THEN 401
    ELSE IF ~json THEN 400
    ELSE IF sid = None THEN 400
    ELSE IF ~(sid \in Sessions /\ instances[sid].exists) THEN 404
    ELSE 0

WebhookReject(p) ==
    /\ proc[p].pc = "idle"
    /\ \E key \in Keys, json \in BOOLEAN, sid \in SessionIds :
       LET code == WhRejectCode(key, json, sid) IN
         /\ code # 0
         /\ proc' = Set(p, [Idle EXCEPT !.pc = "done", !.op = "webhook",
                         !.resp = [code |-> code,
                                   status |-> IF code = 401 THEN "Unauthorized"
                                              ELSE IF code = 400 THEN "Invalid"
                                              ELSE "ignored",
                                   token |-> None]])
    /\ UNCHANGED <<now, tenants, instances, messages, bridge, webhook, forwarded, whOpen, engineVars, dispatch>>

WhGateRowsSaved(rows, s) == [rows EXCEPT ![s] = SaveRow(@, @, Fields, FALSE)]

\* Step 4: the plan lock. The rows the handler leaves behind are the rows
\* it found.
WhGateRows(rows, s) == rows

WhPlanGate(p, s, ev) ==
    /\ ~OwnerValid(instances[s])
    /\ proc' = Set(p, [Idle EXCEPT !.pc = "done", !.op = "webhook", !.sess = s,
                       !.ev = ev, !.inst = instances[s],
                       !.resp = [code |-> 200, status |-> "plan_expired_ignored",
                                 token |-> None]])
    /\ instances' = WhGateRows(instances, s)
    /\ UNCHANGED <<messages, forwarded, whOpen>>

\* The end of step 5 and step 7: QR rule, instance.save(), fan-out, answer.
WhFinish(p, s, ev, local, rows) ==
    LET inst == WhApplyQr(local, ev)
        valid == OwnerValid(inst)
    IN /\ instances' = [rows EXCEPT ![s] = SaveRow(@, inst, Fields, valid)]
       /\ whOpen' = [whOpen EXCEPT ![s] =
                       IF ev.status = "open" /\ ev.token # None /\ valid
                       THEN ev.token ELSE None]
       /\ forwarded' = WhForward(s, ev.type)
       /\ proc' = Set(p, [proc[p] EXCEPT !.pc = "done", !.op = "webhook", !.sess = s,
                            !.ev = ev, !.inst = SaveLocal(inst, valid),
                            !.posts = WhPosts(s, ev.type),
                            !.resp = Processed])

WhConn(p, s, ev) ==
    /\ OwnerValid(instances[s])
    /\ LET inst == WhApplyEvent(instances[s], ev) IN
       IF WhNeedsSync(inst, ev)
       THEN /\ proc' = Set(p, [Idle EXCEPT !.pc = "wh_sync", !.op = "webhook",
                                 !.sess = s, !.ev = ev, !.inst = inst])
            /\ UNCHANGED <<instances, forwarded, whOpen>>
       ELSE WhFinish(p, s, ev, inst, instances)
    /\ UNCHANGED messages

WebhookConn(p) ==
    /\ proc[p].pc = "idle"
    /\ \E s \in Sessions, ev \in ConnEvents, key \in Keys :
         /\ WhRejectCode(key, TRUE, s) = 0
         /\ LET e == [ev EXCEPT !.key = key]
            IN WhPlanGate(p, s, e) \/ WhConn(p, s, e)
    /\ UNCHANGED <<now, tenants, bridge, webhook, engineVars, dispatch>>

\* The self-heal of step 5 (GET /sessions, save of the changed fields),
\* followed by the end of the handler.
WebhookSync(p) ==
    /\ proc[p].pc = "wh_sync"
    /\ LET s == proc[p].sess IN
       \E out \in ListOutcomes(s) :
         LET r == sync_instance_token(proc[p].inst, out)
             rows == [instances EXCEPT ![s] =
                        SaveRow(@, r.inst, r.changed, OwnerValid(proc[p].inst))]
             inst == WhApplyQr(r.inst, proc[p].ev)
             valid == OwnerValid(inst)
         IN /\ instances' = [rows EXCEPT ![s] = SaveRow(@, inst, Fields, valid)]
            /\ whOpen' = OtherWrite(s)
            /\ forwarded' = WhForward(s, proc[p].ev.type)
            /\ proc' = Set(p, [proc[p] EXCEPT !.pc = "done", !.listed = out,
                                 !.synced = IF r.ret THEN "true" ELSE "false",
                                 !.syncTok = r.inst.token,
                                 !.inst = SaveLocal(inst, valid),
                                 !.posts = WhPosts(s, proc[p].ev.type),
                                 !.resp = Processed])
    /\ UNCHANGED <<now, tenants, messages, bridge, webhook, engineVars, dispatch>>

Return(p) ==
    /\ proc[p].pc = "done"
    /\ proc' = Set(p, Idle)
    /\ UNCHANGED <<now, tenants, instances, messages, bridge, webhook, forwarded, whOpen, engineVars, dispatch>>

\* ------------------------------ run_whatsapp_listener process_connection
LsConnEvents ==
    { [NoEv EXCEPT !.type = "connection.update", !.status = st, !.qr = q, !.me = m] :
        st \in {None, "open", "close"}, q \in BOOLEAN,
        m \in { <<>>, <<"5511", "12">> } }

LsApplyEvent(inst, ev) ==
    IF ev.status = "open"
    THEN LET i1 == [inst EXCEPT !.status = "CONNECTED"] IN
         IF ev.me # <<>> THEN [i1 EXCEPT !.phone_connected = JidNumber(ev.me)] ELSE i1
    ELSE IF ev.status = "close" THEN [inst EXCEPT !.status = "DISCONNECTED"]
    ELSE IF ev.qr THEN [inst EXCEPT !.status = "QR_SCANNED"]
    ELSE inst

ListenerConnOf(s, ev) ==
    /\ instances[s].exists
    /\ LET inst == LsApplyEvent(instances[s], ev) IN
       instances' = [instances EXCEPT ![s] = SaveRow(@, inst, Fields, OwnerValid(inst))]
    /\ whOpen' = OtherWrite(s)
    /\ UNCHANGED <<now, tenants, messages, bridge, webhook, forwarded, proc, engineVars, dispatch>>

ListenerConn == \E s \in Sessions, ev \in LsConnEvents : ListenerConnOf(s, ev)

\* ------------------------------------------- views.py HasActivePlan
HasActivePlan(u, t) ==
    /\ u.api
    /\ u.plan_end_date # NoDate
    /\ ~(u.plan_end_date < t)

\* --------------------------------------- get_instance_status_view
PollStatus(inst, out) ==
    IF out.ok /\ out.status # None /\ out.status # inst.status
    THEN [inst EXCEPT !.status = out.status] ELSE inst

PollChanged(inst, out) == out.ok /\ out.status # None /\ out.status # inst.status

\* The tail of the view: the conditional status save and the answer.
PollFinish(p, s, cur, inst, changed, rows, wrote) ==
    LET doSave == changed /\ inst.status # "CONNECTED"
        valid == OwnerValid(inst)
        l == IF doSave THEN SaveLocal(inst, valid) ELSE inst
    IN /\ instances' = IF doSave
                       THEN [rows EXCEPT ![s] = SaveRow(@, inst, {"status"}, valid)]
                       ELSE rows
       /\ whOpen' = IF doSave \/ wrote THEN OtherWrite(s) ELSE whOpen
       /\ proc' = Set(p, [cur EXCEPT !.pc = "done", !.op = "poll", !.sess = s,
                            !.inst = l,
                            !.resp = [code |-> 200, status |-> l.status,
                                      token |-> l.token]])

PollBegin(p) ==
    /\ proc[p].pc = "idle"
    /\ \E s \in Sessions : \E out \in QrOutcomes(s) :
         /\ instances[s].exists
         /\ HasActivePlan(tenants[instances[s].owner], now)
         /\ LET inst == PollStatus(instances[s], out)
                changed == PollChanged(instances[s], out)
            IN IF inst.status = "CONNECTED"
               THEN /\ proc' = Set(p, [Idle EXCEPT !.pc = "poll_sync", !.op = "poll",
                                         !.sess = s, !.inst = inst,
                                         !.changed = changed, !.seen = out.status,
                                         !.rt = whOpen[s]])
                    /\ UNCHANGED <<instances, whOpen>>
               ELSE PollFinish(p, s, [Idle EXCEPT !.changed = changed,
                                                  !.seen = out.status,
                                                  !.rt = whOpen[s]],
                               inst, changed, instances, FALSE)
    /\ UNCHANGED <<now, tenants, messages, bridge, webhook, forwarded, engineVars, dispatch>>

PollSync(p) ==
    /\ proc[p].pc = "poll_sync"
    /\ LET s == proc[p].sess IN
       \E out \in ListOutcomes(s) :
         LET r == sync_instance_token(proc[p].inst, out)
             rows == [instances EXCEPT ![s] =
                        SaveRow(@, r.inst, r.changed, OwnerValid(proc[p].inst))]
             \* refresh_from_db() after a successful sync
             inst == IF r.ret THEN rows[s] ELSE r.inst
         IN PollFinish(p, s, [proc[p] EXCEPT !.listed = out,
                                !.synced = IF r.ret THEN "true" ELSE "false",
                                !.syncTok = r.inst.token],
                       inst, proc[p].changed, rows, r.changed # {})
    /\ UNCHANGED <<now, tenants, messages, bridge, webhook, forwarded, engineVars, dispatch>>

\* ------------------------------------------ monitor_instances handle
\* The session map built from the answer: a dict without a session list
\* gives an empty map.
MonNodeMap(kind, entry) ==
    IF kind = "list" /\ entry.present THEN entry ELSE NoEntry

MonPresent(row, e, valid) ==
    LET real_status == _map_node_status_to_django(e.status)
        stCh == real_status # None /\ real_status # row.status
        l1 == IF stCh THEN SaveLocal([row EXCEPT !.status = real_status], valid) ELSE row
        r1 == IF stCh THEN SaveRow(row, l1, {"status"}, valid) ELSE row
        tokCh == e.token # None /\ e.token # l1.token
        l2 == IF tokCh THEN SaveLocal([l1 EXCEPT !.token = e.token], valid) ELSE l1
        r2 == IF tokCh THEN SaveRow(r1, l2, {"token"}, valid) ELSE r1
        phCh == e.phoneNumber # None /\ e.phoneNumber # l2.phone_connected
        l3 == IF phCh THEN [l2 EXCEPT !.phone_connected = e.phoneNumber] ELSE l2
    IN IF phCh THEN SaveRow(r2, l3, {"phone_connected"}, valid) ELSE r2

MonAbsentStatusOnly(row, valid) ==
    IF row.status \in {"CONNECTED", "QR_SCANNED"}
    THEN SaveRow(row, [row EXCEPT !.status = "DISCONNECTED"], {"status"}, valid)
    ELSE row

MonAbsent(row, valid) ==
    IF row.status = "CONNECTED"
    THEN SaveRow(row, [row EXCEPT !.status = "DISCONNECTED", !.phone_connected = None,
                                  !.token = None], Fields, valid)
    ELSE IF row.status = "QR_SCANNED"
    THEN SaveRow(row, [row EXCEPT !.status = "DISCONNECTED"], {"status"}, valid)
    ELSE row

\* One run of handle for the answer k of GET /sessions.
MonitorRows(k) ==
    IF k = "fail" THEN instances
    ELSE [s \in Sessions |->
           IF ~instances[s].exists THEN instances[s]
           ELSE LET e == MonNodeMap(k, bridge[s])
                    valid == OwnerValid(instances[s])
                IN IF e.present THEN MonPresent(instances[s], e, valid)
                   ELSE MonAbsent(instances[s], valid)]

MonitorSweepOf(k) ==
    /\ instances' = MonitorRows(k)
    /\ whOpen' = [s \in Sessions |->
                    IF instances'[s] # instances[s] THEN None ELSE whOpen[s]]
    /\ UNCHANGED <<now, tenants, messages, bridge, webhook, forwarded, proc, engineVars, dispatch>>

MonitorSweep == \E k \in {"fail", "notlist", "list"} : MonitorSweepOf(k)

\* ------------------------------------------- disconnect_instance_view
\* What DELETE /sessions/<id> can end in: an ok answer, an error answer or
\* a transport failure.
DeleteOutcomes == {"ok", "error", "failed"}

\* The logout call, whose result is not looked at, then the save of status,
\* phone_connected and token.
DisconnectInstance(p) ==
    /\ proc[p].pc = "idle"
    /\ \E s \in Sessions, outcome \in DeleteOutcomes :
         /\ instances[s].exists
         /\ HasActivePlan(tenants[instances[s].owner], now)
         /\ \/ /\ outcome \in {"ok", "failed"}
               /\ bridge' = [bridge EXCEPT ![s] = NoEntry]
            \/ /\ outcome \in {"error", "failed"}
               /\ bridge' = bridge
         /\ LET inst == [instances[s] EXCEPT !.status = "DISCONNECTED",
                                             !.phone_connected = None,
                                             !.token = None]
            IN instances' = [instances EXCEPT ![s] =
                               SaveRow(@, inst, Fields, OwnerValid(inst))]
         /\ whOpen' = OtherWrite(s)
         /\ proc' = Set(p, [Idle EXCEPT !.pc = "done", !.op = "disconnect",
                              !.sess = s, !.first = outcome,
                              !.resp = [code |-> 200, status |-> "disconnected",
                                        token |-> None]])
    /\ UNCHANGED <<now, tenants, messages, webhook, forwarded, engineVars, dispatch>>

\* ------------------------------------------------------ specification
TenantInit ==
    [plan |-> TRUE, plan_end_date |-> MaxNow, api |-> TRUE, max_instances |-> 1]

InitConn ==
    /\ now = 0
    /\ tenants = [t \in Tenants |-> TenantInit]
    /\ instances = [s \in {"s1"} |-> NewRow("t1")]
    /\ messages = <<>>
    /\ bridge = [s \in {"s1"} |-> NoEntry]
    /\ webhook = [s \in {"s1"} |-> [url |-> TRUE, send_messages |-> TRUE,
                                    send_presence |-> FALSE, up |-> TRUE]]
    /\ forwarded = {}
    /\ whOpen = [s \in {"s1"} |-> None]
    /\ proc = [p \in Procs |-> Idle]
    /\ EngineIdle
    /\ DispatchIdle

NextConn ==
    \/ Tick
    \/ \E s \in Sessions : BridgeStep(s)
    \/ ListenerConn
    \/ MonitorSweep
    \/ WebhookReject("p1")
    \/ WebhookConn("p1")
    \/ WebhookSync("p1")
    \/ PollBegin("p1")
    \/ PollSync("p1")
    \/ DisconnectInstance("p1")
    \/ Return("p1")

SpecConn == InitConn /\ [][NextConn]_vars

\* ------------------------------------------- reconciliation sweeps
\* One run of the monitor_instances command as process p, which keeps the
\* answer of GET /sessions and the row of one session as it was before.
SweepRun(p) ==
    /\ proc[p].pc = "idle"
    /\ \E k \in {"fail", "notlist", "list"}, s \in Sessions :
         /\ instances' = MonitorRows(k)
         /\ whOpen' = [x \in Sessions |->
                         IF instances'[x] # instances[x] THEN None ELSE whOpen[x]]
         /\ proc' = Set(p, [Idle EXCEPT !.pc = "done", !.op = "sweep", !.sess = s,
                              !.inst = instances[s],
                              !.listed = [kind |-> k, entry |-> bridge[s]]])
    /\ UNCHANGED <<now, tenants, messages, bridge, webhook, forwarded, engineVars, dispatch>>

\* Instance.token is unique: only the first session carries tokens here.
SweepTokens(s) == IF s = "s1" THEN Tokens ELSE {}

SweepRows(s) ==
    { [NewRow("t1") EXCEPT !.status = st, !.token = tk] :
        st \in {"CREATED", "QR_SCANNED", "CONNECTED"},
        tk \in SweepTokens(s) \cup {None} }

SweepEntries(s) == { b \in BridgeStates : b.token \in SweepTokens(s) \cup {None} }

InitSweep ==
    /\ now = 0
    /\ tenants = [t \in Tenants |-> TenantInit]
    /\ \E r1 \in SweepRows("s1"), r2 \in SweepRows("s2") :
         instances = [s \in {"s1", "s2"} |-> IF s = "s1" THEN r1 ELSE r2]
    /\ messages = <<>>
    /\ \E b1 \in SweepEntries("s1"), b2 \in SweepEntries("s2") :
         bridge = [s \in {"s1", "s2"} |-> IF s = "s1" THEN b1 ELSE b2]
    /\ webhook = [s \in {"s1", "s2"} |-> [url |-> FALSE, send_messages |-> TRUE,
                                          send_presence |-> FALSE, up |-> TRUE]]
    /\ forwarded = {}
    /\ whOpen = [s \in {"s1", "s2"} |-> None]
    /\ proc = [p \in Procs |-> Idle]
    /\ EngineIdle
    /\ DispatchIdle

NextSweep ==
    \/ Tick
    \/ SweepRun("p1")
    \/ Return("p1")

SpecSweep == InitSweep /\ [][NextSweep]_vars

\* ---------------------------------------------------- Message store
Wamids == {"w1", "w2"}

MsgRow(s, ev, by) ==
    [instance |-> s, remote_jid |-> ev.jid, from_me |-> ev.fromMe,
     push_name |-> ev.pushName, content |-> ev.content, wamid |-> ev.wamid,
     by |-> by]

\* Message.objects.filter(wamid=wamid).exists()
WamidExists(rows, w) == \E i \in DOMAIN rows : rows[i].wamid = w

UniqueOff(rows, row) == FALSE

\* The unique index on Message.wamid (NULLs do not collide): whether the
\* INSERT of row raises IntegrityError.
UniqueViolation(rows, row) == row.wamid # None /\ WamidExists(rows, row.wamid)

\* Message.objects.create(...)
CreateMessage(rows, row) ==
    IF UniqueViolation(rows, row) THEN rows ELSE Append(rows, row)

\* ------------------------------ InternalWebhookReceiver.post, step 6
MsgEvents ==
    { [NoEv EXCEPT !.type = "message", !.wamid = w, !.fromMe = f, !.jid = "j1",
                   !.content = c, !.pushName = "Zed"] :
        w \in Wamids \cup {None}, f \in BOOLEAN, c \in {"", "hi"} }

WhMsg(p, s, ev) ==
    /\ OwnerValid(instances[s])
    /\ IF ev.wamid # None /\ ~WamidExists(messages, ev.wamid)
       THEN /\ proc' = Set(p, [Idle EXCEPT !.pc = "wh_create", !.op = "webhook",
                                 !.sess = s, !.ev = ev, !.inst = instances[s]])
            /\ UNCHANGED forwarded
       ELSE /\ proc' = Set(p, [Idle EXCEPT !.pc = "done", !.op = "webhook",
                                 !.sess = s, !.ev = ev, !.inst = instances[s],
                                 !.posts = WhPosts(s, ev.type),
                                 !.resp = Processed])
            /\ forwarded' = WhForward(s, ev.type)
    /\ UNCHANGED <<instances, messages, whOpen>>

WebhookMsg(p) ==
    /\ proc[p].pc = "idle"
    /\ \E s \in Sessions, ev \in MsgEvents, key \in Keys :
         /\ WhRejectCode(key, TRUE, s) = 0
         /\ LET e == [ev EXCEPT !.key = key]
            IN WhPlanGate(p, s, e) \/ WhMsg(p, s, e)
    /\ UNCHANGED <<now, tenants, bridge, webhook, engineVars, dispatch>>

WebhookCreate(p) ==
    /\ proc[p].pc = "wh_create"
    /\ Len(messages) < MaxRows
    /\ LET row == MsgRow(proc[p].sess, proc[p].ev, 0) IN
       /\ messages' = CreateMessage(messages, row)
       /\ proc' = Set(p, [proc[p] EXCEPT !.pc = "done", !.resp = Processed,
                            !.posts = WhPosts(proc[p].sess, proc[p].ev.type),
                            !.dup = UniqueViolation(messages, row)])
    /\ forwarded' = WhForward(proc[p].sess, proc[p].ev.type)
    /\ UNCHANGED <<now, tenants, instances, bridge, webhook, whOpen, engineVars, dispatch>>

\* ------------------------------------------------- chatbot/engine.py
NoDecision == [save_name |-> None, transfer |-> FALSE, messages |-> <<>>,
               delays_ms |-> <<>>, quote |-> FALSE, reaction_emoji |-> None,
               send_media_id |-> None]

NoGate == [at |-> NoDate, count |-> 0, last |-> NoDate, reset |-> FALSE,
           ok |-> FALSE]

NewTask(inst, s, ev) ==
    [pc |-> "start", sess |-> s, jid |-> ev.jid, text |-> ev.content,
     pushName |-> ev.pushName, inst |-> inst,
     count |-> chatbot.conversations_count, active |-> chatbot.active,
     last |-> chatbot.last_reset_date, gate |-> NoGate,
     message_key |-> FALSE, quoted_message |-> FALSE, calls |-> <<>>,
     due |-> 0, contact |-> NoContact, unknown |-> FALSE, decision |-> NoDecision,
     final |-> <<>>, idx |-> 0, log |-> <<>>, path |-> None]

\* process_incoming_message: one engine and one thread per call.
process_incoming_message(inst, s, ev, via) ==
    /\ spawned' = Append(spawned, [wamid |-> ev.wamid, jid |-> ev.jid, via |-> via])
    /\ task' = Append(task, NewTask(inst, s, ev))

\* --------------------------- run_whatsapp_listener process_message
LsMsgEvents ==
    MsgEvents \cup { [NoEv EXCEPT !.type = "message", !.wamid = "w1", !.content = "hi"] }

ListenerRead(p, events) ==
    /\ proc[p].pc = "idle"
    /\ \E s \in Sessions, ev \in events :
         /\ instances[s].exists
         /\ proc' = Set(p, [Idle EXCEPT
                      !.pc = IF ev.jid # None /\ ev.wamid # None
                                /\ ~WamidExists(messages, ev.wamid)
                             THEN "ls_create" ELSE "done",
                      !.op = "listener", !.sess = s, !.ev = ev,
                      !.inst = instances[s]])
    /\ UNCHANGED <<now, tenants, instances, messages, bridge, webhook, forwarded,
                   whOpen, engineVars, dispatch>>

ListenerMsg(p) == ListenerRead(p, LsMsgEvents)

LsTriggersEcho(ev) == ev.content # ""

\* The chatbot trigger of process_message.
LsTriggers(ev) == ~ev.fromMe /\ ev.content # ""

ListenerCreate(p) ==
    /\ proc[p].pc = "ls_create"
    /\ Len(messages) < MaxRows
    /\ LET row == MsgRow(proc[p].sess, proc[p].ev, 0)
           raised == UniqueViolation(messages, row)
       IN /\ messages' = CreateMessage(messages, row)
          /\ IF ~raised /\ LsTriggers(proc[p].ev)
             THEN process_incoming_message(proc[p].inst, proc[p].sess, proc[p].ev,
                                           "listener")
             ELSE UNCHANGED <<spawned, task>>
          /\ proc' = Set(p, [proc[p] EXCEPT !.pc = "done", !.dup = raised])
    /\ UNCHANGED <<now, tenants, instances, bridge, webhook, forwarded, whOpen,
                   contacts, chatbot, dispatch>>

InitMsg ==
    /\ now = 0
    /\ tenants = [t \in Tenants |-> TenantInit]
    /\ instances = [s \in {"s1"} |-> NewRow("t1")]
    /\ messages = <<>>
    /\ bridge = [s \in {"s1"} |-> NoEntry]
    /\ webhook \in [{"s1"} -> { [url |-> u, send_messages |-> m,
                                 send_presence |-> FALSE, up |-> TRUE] :
                                 u, m \in BOOLEAN }]
    /\ forwarded = {}
    /\ whOpen = [s \in {"s1"} |-> None]
    /\ proc = [p \in Procs |-> Idle]
    /\ EngineIdle
    /\ DispatchIdle

NextMsg ==
    \/ Tick
    \/ \E p \in Procs :
         \/ WebhookReject(p)
         \/ WebhookMsg(p)
         \/ WebhookCreate(p)
         \/ Return(p)
    \/ ListenerMsg("p2")
    \/ ListenerCreate("p2")

SpecMsg == InitMsg /\ [][NextMsg]_vars

\* ------------------------------------------- per-instance Bridge send
\* POST /<session>/messages/send with a session token: accepted only with
\* the token the Bridge holds, refused with ACESSO NEGADO otherwise; any
\* call can also fail in another way.
SendOutcomes(s, token) ==
    IF bridge[s].present /\ bridge[s].token # None /\ bridge[s].token = token
    THEN {"ok", "fail"}
    ELSE {"denied", "fail"}

RetryAlways(ret, token) == TRUE

\* The guard of the single retry after ACESSO NEGADO.
RetryAllowed(ret, token) == ret /\ token # None

\* The end of a send: the view stores a row for an accepted send and
\* answers with the Bridge's body; _send_text returns bool(success).
SendFinish(p, cur, outcome) ==
    /\ messages' = IF cur.op = "send_view" /\ outcome = "ok"
                   THEN Append(messages,
                               [instance |-> cur.sess, remote_jid |-> "j1",
                                from_me |-> TRUE, push_name |-> None,
                                content |-> "hi", wamid |-> None, by |-> 0])
                   ELSE messages
    /\ proc' = Set(p, [cur EXCEPT !.pc = "done",
                         !.resp = [code |-> IF outcome = "ok" THEN 200 ELSE 500,
                                   status |-> outcome, token |-> None]])

\* send_test_message_view up to the token check.
SendViewBegin(p) ==
    /\ proc[p].pc = "idle"
    /\ Len(messages) < MaxRows
    /\ \E s \in Sessions :
         /\ instances[s].exists
         /\ HasActivePlan(tenants[instances[s].owner], now)
         /\ proc' = Set(p, [Idle EXCEPT
                      !.pc = IF instances[s].token = None THEN "send_preheal"
                             ELSE "send",
                      !.op = "send_view", !.sess = s, !.inst = instances[s]])
    /\ UNCHANGED <<now, tenants, instances, messages, bridge, webhook, forwarded,
                   whOpen, engineVars, dispatch>>

\* The self-heal of the view when the stored token is empty.
SendPreHeal(p) ==
    /\ proc[p].pc = "send_preheal"
    /\ LET s == proc[p].sess IN
       \E out \in ListOutcomes(s) :
         LET r == sync_instance_token(proc[p].inst, out) IN
         /\ instances' = [instances EXCEPT ![s] =
                            SaveRow(@, r.inst, r.changed, OwnerValid(proc[p].inst))]
         /\ whOpen' = IF r.changed # {} THEN OtherWrite(s) ELSE whOpen
         /\ proc' = Set(p, [proc[p] EXCEPT
                      !.pc = IF r.inst.token = None THEN "done" ELSE "send",
                      !.inst = r.inst, !.listed = out, !.pre = TRUE,
                      !.synced = IF r.ret THEN "true" ELSE "false",
                      !.syncTok = r.inst.token,
                      !.resp = IF r.inst.token = None
                               THEN [code |-> 403, status |-> "no_token",
                                     token |-> None]
                               ELSE NoResp])
    /\ UNCHANGED <<now, tenants, messages, bridge, webhook, forwarded, engineVars, dispatch>>

\* ChatbotEngine._send_text, entered with the engine's instance object.
SendTextBegin(p) ==
    /\ proc[p].pc = "idle"
    /\ \E s \in Sessions :
         /\ instances[s].exists
         /\ proc' = Set(p, [Idle EXCEPT !.pc = "send", !.op = "send_text",
                              !.sess = s, !.inst = instances[s]])
    /\ UNCHANGED <<now, tenants, instances, messages, bridge, webhook, forwarded,
                   whOpen, engineVars, dispatch>>

\* The first send_message call.
SendFirst(p) ==
    /\ proc[p].pc = "send"
    /\ \E outcome \in SendOutcomes(proc[p].sess, proc[p].inst.token) :
         LET cur == [proc[p] EXCEPT !.sends = 1, !.first = outcome,
                                    !.hdr = RequestHeaders(proc[p].inst.token),
                                    !.attempts = RequestAttempts] IN
         IF outcome = "denied"
         THEN /\ proc' = Set(p, [cur EXCEPT !.pc = "send_heal"])
              /\ UNCHANGED messages
         ELSE SendFinish(p, cur, outcome)
    /\ UNCHANGED <<now, tenants, instances, bridge, webhook, forwarded, whOpen,
                   engineVars, dispatch>>

\* The self-heal after ACESSO NEGADO (_try_sync_token reloads the row
\* after a successful sync).
SendHeal(p) ==
    /\ proc[p].pc = "send_heal"
    /\ LET s == proc[p].sess IN
       \E out \in ListOutcomes(s) :
         LET r == sync_instance_token(proc[p].inst, out)
             rows == [instances EXCEPT ![s] =
                        SaveRow(@, r.inst, r.changed, OwnerValid(proc[p].inst))]
             inst == IF proc[p].op = "send_text" /\ r.ret THEN rows[s] ELSE r.inst
             cur == [proc[p] EXCEPT !.inst = inst, !.listed = out, !.heals = @ + 1,
                                    !.synced = IF r.ret THEN "true" ELSE "false",
                                    !.syncTok = r.inst.token]
         IN /\ instances' = rows
            /\ whOpen' = IF r.changed # {} THEN OtherWrite(s) ELSE whOpen
            /\ IF RetryAllowed(r.ret, inst.token)
               THEN /\ proc' = Set(p, [cur EXCEPT !.pc = "send_retry"])
                    /\ UNCHANGED messages
               ELSE SendFinish(p, cur, "denied")
    /\ UNCHANGED <<now, tenants, bridge, webhook, forwarded, engineVars, dispatch>>

\* The one retry with the synced token.
SendRetry(p) ==
    /\ proc[p].pc = "send_retry"
    /\ \E outcome \in SendOutcomes(proc[p].sess, proc[p].inst.token) :
         SendFinish(p, [proc[p] EXCEPT !.sends = 2,
                                       !.hdr = RequestHeaders(proc[p].inst.token),
                                       !.attempts = RequestAttempts], outcome)
    /\ UNCHANGED <<now, tenants, instances, bridge, webhook, forwarded, whOpen,
                   engineVars, dispatch>>

InitSend ==
    /\ now = 0
    /\ tenants = [t \in Tenants |-> TenantInit]
    /\ instances = [s \in {"s1"} |-> NewRow("t1")]
    /\ messages = <<>>
    /\ bridge = [s \in {"s1"} |-> NoEntry]
    /\ webhook = [s \in {"s1"} |-> [url |-> TRUE, send_messages |-> TRUE,
                                    send_presence |-> FALSE, up |-> TRUE]]
    /\ forwarded = {}
    /\ whOpen = [s \in {"s1"} |-> None]
    /\ proc = [p \in Procs |-> Idle]
    /\ EngineIdle
    /\ DispatchIdle

NextSend ==
    \/ Tick
    \/ \E s \in Sessions : BridgeStep(s)
    \/ SendViewBegin("p1")
    \/ SendPreHeal("p1")
    \/ SendTextBegin("p1")
    \/ SendFirst("p1")
    \/ SendHeal("p1")
    \/ SendRetry("p1")
    \/ Return("p1")

SpecSend == InitSend /\ [][NextSend]_vars

\* ------------------------------------------- InstanceActionView
Slots == {"s1", "s2"}

NoHook == [url |-> FALSE, send_messages |-> TRUE, send_presence |-> FALSE,
           up |-> TRUE]

InstanceCount(rows, t) ==
    Cardinality({ s \in DOMAIN rows : rows[s].exists /\ rows[s].owner = t })

\* Usuario.can_create_instance with n the current number of instances.
can_create_instance(u, t, n) == is_plan_valid(u, t) /\ n < u.max_instances

\* post: the permission and the limit check.
CreateCheck(p) ==
    /\ proc[p].pc = "idle"
    /\ \E t \in Tenants :
         /\ HasActivePlan(tenants[t], now)
         /\ proc' = Set(p,
              IF can_create_instance(tenants[t], now, InstanceCount(instances, t))
              THEN [Idle EXCEPT !.pc = "cr_insert", !.op = "create", !.rt = t]
              ELSE [Idle EXCEPT !.pc = "done", !.op = "create", !.rt = t,
                                !.resp = [code |-> 403, status |-> "limit",
                                          token |-> None]])
    /\ UNCHANGED <<now, tenants, instances, messages, bridge, webhook, forwarded,
                   whOpen, engineVars, dispatch>>

\* post: Instance.objects.create and WebhookConfig.objects.create.
CreateInsert(p) ==
    /\ proc[p].pc = "cr_insert"
    /\ \E s \in Sessions :
         /\ ~instances[s].exists
         /\ LET t == proc[p].rt
                row == SaveLocal(NewRow(t), is_plan_valid(tenants[t], now))
            IN /\ instances' = [instances EXCEPT ![s] = row]
               /\ webhook' = [webhook EXCEPT ![s] = NoHook]
               /\ proc' = Set(p, [proc[p] EXCEPT !.pc = "cr_start", !.sess = s,
                                                 !.inst = row])
    /\ UNCHANGED <<now, tenants, messages, bridge, forwarded, whOpen, engineVars, dispatch>>

CreateStartKeep(p) ==
    /\ proc[p].pc = "cr_start"
    /\ LET s == proc[p].sess IN
       \E ok \in BOOLEAN :
         IF ok
         THEN /\ bridge' = [bridge EXCEPT ![s] = [NoEntry EXCEPT !.present = TRUE,
                                                    !.status = "connecting"]]
              /\ proc' = Set(p, [proc[p] EXCEPT !.pc = "done",
                                   !.resp = [code |-> 201, status |-> "CREATED",
                                             token |-> None]])
              /\ UNCHANGED instances
         ELSE /\ instances' = instances
              /\ proc' = Set(p, [proc[p] EXCEPT !.pc = "done",
                                   !.resp = [code |-> 500, status |-> "fail",
                                             token |-> None]])
              /\ UNCHANGED bridge
    /\ UNCHANGED <<now, tenants, messages, webhook, forwarded, whOpen, engineVars, dispatch>>

\* post: create_session on the Bridge; the instance is deleted when it fails.
CreateStart(p) ==
    /\ proc[p].pc = "cr_start"
    /\ LET s == proc[p].sess IN
       \E ok \in BOOLEAN :
         IF ok
         THEN /\ bridge' = [bridge EXCEPT ![s] = [NoEntry EXCEPT !.present = TRUE,
                                                    !.status = "connecting"]]
              /\ proc' = Set(p, [proc[p] EXCEPT !.pc = "done",
                                   !.resp = [code |-> 201, status |-> "CREATED",
                                             token |-> None]])
              /\ UNCHANGED instances
         ELSE /\ instances' = [instances EXCEPT ![s] = NoRow]
              /\ proc' = Set(p, [proc[p] EXCEPT !.pc = "done",
                                   !.resp = [code |-> 500, status |-> "fail",
                                             token |-> None]])
              /\ UNCHANGED bridge
    /\ UNCHANGED <<now, tenants, messages, webhook, forwarded, whOpen, engineVars, dispatch>>

\* delete: the Bridge session, then the row.
DeleteRowsIfOk(rows, s, outcome) ==
    IF outcome = "ok" THEN [rows EXCEPT ![s] = NoRow] ELSE rows

\* instance.delete(): the row is removed after any outcome of the call.
DeleteRows(rows, s, outcome) == [rows EXCEPT ![s] = NoRow]

\* InstanceActionView.delete up to the return of node_bridge.delete_session:
\* the Bridge drops the session when it answers ok, keeps it when it answers
\* an error, and may have done either when the transport failed.
DeleteInstance(p) ==
    /\ proc[p].pc = "idle"
    /\ \E s \in Sessions, outcome \in DeleteOutcomes :
         /\ instances[s].exists
         /\ HasActivePlan(tenants[instances[s].owner], now)
         /\ \/ /\ outcome \in {"ok", "failed"}
               /\ bridge' = [bridge EXCEPT ![s] = NoEntry]
            \/ /\ outcome \in {"error", "failed"}
               /\ bridge' = bridge
         /\ proc' = Set(p, [Idle EXCEPT !.pc = "del_row", !.op = "delete",
                              !.sess = s, !.sends = 1, !.first = outcome,
                              !.hdr = RequestHeaders(None),
                              !.attempts = RequestAttempts])
    /\ UNCHANGED <<now, tenants, instances, messages, webhook, forwarded, whOpen,
                   engineVars, dispatch>>

\* instance.delete() with its cascade to the WebhookConfig, and the 204.
DeleteRow(p) ==
    /\ proc[p].pc = "del_row"
    /\ instances' = DeleteRows(instances, proc[p].sess, proc[p].first)
    /\ webhook' = [webhook EXCEPT ![proc[p].sess] =
                     IF instances'[proc[p].sess].exists THEN @ ELSE NoHook]
    /\ proc' = Set(p, [proc[p] EXCEPT !.pc = "done",
                         !.resp = [code |-> 204, status |-> None, token |-> None]])
    /\ UNCHANGED <<now, tenants, messages, bridge, forwarded, whOpen, engineVars,
                   dispatch>>

InitCreate ==
    /\ now = 0
    /\ tenants = [t \in Tenants |-> TenantInit]
    /\ instances = [s \in Slots |-> NoRow]
    /\ messages = <<>>
    /\ bridge = [s \in Slots |-> NoEntry]
    /\ webhook = [s \in Slots |-> NoHook]
    /\ forwarded = {}
    /\ whOpen = [s \in Slots |-> None]
    /\ proc = [p \in Procs |-> Idle]
    /\ EngineIdle
    /\ DispatchIdle

NextCreate ==
    \/ Tick
    \/ \E p \in Procs :
         \/ CreateCheck(p)
         \/ CreateInsert(p)
         \/ CreateStart(p)
         \/ DeleteInstance(p)
         \/ DeleteRow(p)
         \/ Return(p)

SpecCreate == InitCreate /\ [][NextCreate]_vars

\* ------------------------------------- ChatbotEngine.process_message
\* The inbound texts of the chat vocabulary and what the name helpers make
\* of each: "not my name" matches a denial pattern; "me chamo Ana" matches
\* an explicit self-identification with candidate "Ana"; "ok 123" holds
\* digits and is no name; the others are letters and spaces only.

AskName == "What is your name?"

_validate_name(n) == n \in {"Ana", "Bob", "Zed", "not my name", "me chamo Ana"}

_user_denied_name(txt) == txt = "not my name"

_extract_explicit_name(txt) ==
    IF txt = "me chamo Ana" /\ _validate_name("Ana") THEN "Ana" ELSE None

\* The rows of one conversation the bot sent, oldest first.
BotRows(rows, s, j) ==
    SelectSeq(rows, LAMBDA r : r.instance = s /\ r.remote_jid = j /\ r.from_me)

_last_bot_asked_name(rows, s, j) ==
    LET b == BotRows(rows, s, j) IN
    Len(b) > 0 /\ b[Len(b)].content = AskName

\* A denial or a self-identification arrives as w1, a short reply as w2.
ChatEvents ==
    { [NoEv EXCEPT !.type = "message", !.wamid = x[1], !.jid = "j1",
                   !.content = x[2], !.pushName = "Zed"] :
        x \in { <<"w1", "not my name">>, <<"w1", "me chamo Ana">>,
                 <<"w2", "Ana">>, <<"w2", "ok 123">> } }

ListenerChat(p) == ListenerRead(p, ChatEvents)

\* What the model answers: a name to save (valid or not), a transfer, the
\* messages of the reply.
Decisions ==
    { [NoDecision EXCEPT !.save_name = "Bob", !.messages = <<"m1", "m2">>],
      [NoDecision EXCEPT !.messages = <<AskName>>],
      [NoDecision EXCEPT !.save_name = "x@y"],
      [NoDecision EXCEPT !.transfer = TRUE] }

DefaultsPushName(pushName) == pushName

\* get_or_create(..., defaults={}): the push_name of a contact it creates.
ContactDefaults(pushName) == None

SetTask(t, rec) == [task EXCEPT ![t] = rec]

SavePushName(j, name) == [contacts EXCEPT ![j].push_name = name]

\* The gates and the contact lookup.
\* ------------------------------------------------- conversation quota
\* The calendar days of the instants 0, 1, 2, ... of the clock.
Calendar ==
    << [year |-> 2025, month |-> 1, day |-> 31],
       [year |-> 2025, month |-> 2, day |-> 1],
       [year |-> 2025, month |-> 4, day |-> 1],
       [year |-> 2025, month |-> 7, day |-> 1],
       [year |-> 2026, month |-> 1, day |-> 31] >>

DateOf(t) == Calendar[t + 1]

Periodicities == {"daily", "monthly", "quarterly", "semiannual", "yearly"}

ResetNoYear(periodicity, last, cur) ==
    CASE periodicity = "daily" -> last # cur
      [] periodicity = "monthly" -> last.month # cur.month
      [] periodicity = "quarterly" ->
           ((cur.month - 1) \div 3) + 1 # ((last.month - 1) \div 3) + 1
      [] periodicity = "semiannual" ->
           (IF cur.month <= 6 THEN 1 ELSE 2) # (IF last.month <= 6 THEN 1 ELSE 2)
      [] periodicity = "yearly" -> last.year # cur.year
      [] OTHER -> FALSE

\* The reset rules of Chatbot.check_limit on two calendar days.
should_reset(periodicity, last, cur) ==
    CASE periodicity = "daily" -> last # cur
      [] periodicity = "monthly" ->
           last.month # cur.month \/ last.year # cur.year
      [] periodicity = "quarterly" ->
           \/ ((cur.month - 1) \div 3) + 1 # ((last.month - 1) \div 3) + 1
           \/ last.year # cur.year
      [] periodicity = "semiannual" ->
           \/ (IF cur.month <= 6 THEN 1 ELSE 2) # (IF last.month <= 6 THEN 1 ELSE 2)
           \/ last.year # cur.year
      [] periodicity = "yearly" -> last.year # cur.year
      [] OTHER -> FALSE

\* Chatbot.check_limit on the task's in-memory chatbot (count, last) at
\* instant t; periodicity "None" stands for no active subscription.
check_limit(periodicity, max, count, last, t) ==
    IF periodicity = "None"
    THEN [at |-> t, count |-> count, last |-> last, reset |-> FALSE, ok |-> FALSE]
    ELSE IF periodicity = "infinity"
    THEN [at |-> t, count |-> count, last |-> last, reset |-> FALSE, ok |-> TRUE]
    ELSE LET reset == should_reset(periodicity, DateOf(last), DateOf(t))
             c == IF reset THEN 0 ELSE count
         IN [at |-> t, count |-> c, last |-> IF reset THEN t ELSE last,
             reset |-> reset, ok |-> c < max]

\* Chatbot.check_token_limit
check_token_limit(type, limit, used) ==
    IF type = "infinity" THEN TRUE
    ELSE IF limit > 0 /\ used >= limit THEN FALSE
    ELSE TRUE

\* The active flag, the two gates and the contact row. chatbot.spent is the
\* sum of the usage the model has reported so far and task[t].due the
\* tokens consumed when the task met the gate.
EngStart(t) ==
    /\ task[t].pc = "start"
    /\ LET j == task[t].jid
           created == ~contacts[j].exists
           row == IF created
                  THEN [exists |-> TRUE,
                        push_name |-> ContactDefaults(task[t].pushName),
                        is_blocked |-> FALSE]
                  ELSE contacts[j]
           gate == check_limit(chatbot.periodicity, chatbot.max_conversations,
                               task[t].count, task[t].last, now)
       IN IF ~task[t].active
          THEN /\ task' = SetTask(t, [task[t] EXCEPT !.pc = "done"])
               /\ UNCHANGED <<contacts, chatbot>>
          ELSE /\ chatbot' = IF gate.reset
                             THEN [chatbot EXCEPT !.conversations_count = 0,
                                                  !.last_reset_date = now,
                                                  !.passed = 0]
                             ELSE chatbot
               /\ IF ~gate.ok \/ ~check_token_limit(chatbot.token_usage_type,
                                                     chatbot.token_limit,
                                                     chatbot.current_tokens_used)
                  THEN /\ task' = SetTask(t, [task[t] EXCEPT !.pc = "done",
                                       !.count = gate.count, !.last = gate.last,
                                       !.gate = gate,
                                       !.due = chatbot.current_tokens_used
                                               + chatbot.spent])
                       /\ UNCHANGED contacts
                  ELSE /\ contacts' = [contacts EXCEPT ![j] = row]
                       /\ task' = SetTask(t, [task[t] EXCEPT
                                    !.pc = IF row.is_blocked THEN "done" ELSE "denial",
                                    !.inst = instances[task[t].sess],
                                    !.count = gate.count, !.last = gate.last,
                                    !.gate = gate,
                                    !.due = chatbot.current_tokens_used
                                            + chatbot.spent,
                                    !.contact = row])
    /\ UNCHANGED <<now, tenants, instances, messages, bridge, webhook, forwarded,
                   whOpen, proc, spawned, dispatch>>

\* A denial clears the confirmed name.
EngDenial(t) ==
    /\ task[t].pc = "denial"
    /\ LET c == task[t].contact
           clear == _user_denied_name(task[t].text)
                    /\ c.push_name # None /\ c.push_name # ""
       IN /\ contacts' = IF clear THEN SavePushName(task[t].jid, "") ELSE contacts
          /\ task' = SetTask(t, [task[t] EXCEPT !.pc = "explicit",
                       !.contact = IF clear THEN [c EXCEPT !.push_name = ""] ELSE c])
    /\ UNCHANGED <<now, tenants, instances, messages, bridge, webhook, forwarded,
                   whOpen, proc, spawned, chatbot, dispatch>>

\* An explicit self-identification is saved.
EngExplicit(t) ==
    /\ task[t].pc = "explicit"
    /\ LET c == task[t].contact
           extracted == _extract_explicit_name(task[t].text)
       IN /\ contacts' = IF extracted # None
                         THEN SavePushName(task[t].jid, extracted) ELSE contacts
          /\ task' = SetTask(t, [task[t] EXCEPT !.pc = "bare",
                       !.contact = IF extracted # None
                                   THEN [c EXCEPT !.push_name = extracted] ELSE c])
    /\ UNCHANGED <<now, tenants, instances, messages, bridge, webhook, forwarded,
                   whOpen, proc, spawned, chatbot, dispatch>>

\* A short reply is taken as the name only when the bot asked for it.
EngBare(t) ==
    /\ task[t].pc = "bare"
    /\ LET c == task[t].contact
           unknown == ~_validate_name(c.push_name)
           take == unknown
                   /\ _last_bot_asked_name(messages, task[t].sess, task[t].jid)
                   /\ _validate_name(task[t].text)
       IN /\ contacts' = IF take
                         THEN SavePushName(task[t].jid, task[t].text) ELSE contacts
          /\ task' = SetTask(t, [task[t] EXCEPT !.pc = "llm",
                       !.unknown = unknown /\ ~take,
                       !.contact = IF take THEN [c EXCEPT !.push_name = task[t].text]
                                   ELSE c])
    /\ UNCHANGED <<now, tenants, instances, messages, bridge, webhook, forwarded,
                   whOpen, proc, spawned, chatbot, dispatch>>

\* One Bridge call of a task, in the order the Bridge got it: the kind of the call,
\* the index of the reply message it carries (0 when none), what the call
\* reported and the requests it made. _send_text and _send_media report
\* success exactly when the Bridge accepted, so the answer is kept only for
\* the calls that go through _safe_request.
CallRow(kind, n, r) ==
    [kind |-> kind, n |-> n, ok |-> r.sent, reqs |-> r.reqs, answer |-> None]

SafeRow(kind, n, r) ==
    [kind |-> kind, n |-> n, ok |-> r.sent, reqs |-> r.reqs, answer |-> r.final]

\* A read receipt or presence call, whose answer the engine drops.
Dropped(kind) ==
    [kind |-> kind, n |-> 0, ok |-> TRUE, reqs |-> 1, answer |-> None]

\* Step 3 and step 4: the read receipts, the composing presence while the
\* model decides and the paused presence after it.
KeepalivePlaces == {"in_time", "after_paused"}

\* The keepalive thread of step 4 is a daemon thread that nothing joins: the
\* composing post it has in flight when the caller sets the stop event
\* reaches the Bridge before the caller's paused post or after it.
ReadCallsAt(tk, place) ==
    (IF tk.message_key THEN <<Dropped("messages_read")>> ELSE <<>>)
    \o <<Dropped("chat_read")>>
    \o (IF ~chatbot.simulate_typing THEN <<>>
        ELSE IF place = "in_time" THEN <<Dropped("composing"), Dropped("paused")>>
        ELSE <<Dropped("paused"), Dropped("composing")>>)

ReadCalls(tk) == ReadCallsAt(tk, "in_time")

\* _simulate_typing_for_ms before a later message of the reply.
TypingCalls(ms) ==
    IF chatbot.simulate_typing /\ ms > 0
    THEN <<Dropped("composing"), Dropped("paused")>> ELSE <<>>

\* _simulate_typing_for_ms posts composing from a daemon thread it starts
\* and does not join, while the caller sleeps, posts paused and goes on to
\* the send: the composing post reaches the Bridge before the paused one,
\* between it and the send, or after the send.
ComposingPlaces == {"in_time", "after_paused", "after_send"}

\* The calls of one turn of the send loop in the order the Bridge gets them.
TypedSend(ms, kinds, place) ==
    LET typing == TypingCalls(ms) IN
    IF typing = <<>> \/ place = "in_time" THEN typing \o kinds
    ELSE IF place = "after_paused" THEN <<typing[2], typing[1]>> \o kinds
    ELSE <<typing[2]>> \o kinds \o <<typing[1]>>

\* 6.5: the delay before message i + 1; a missing one is drawn by the engine.
DelayBefore(d, i) == IF i <= Len(d.delays_ms) THEN d.delays_ms[i] ELSE 1000

EngDecideGoOn(t, decisions, usages, places) ==
    /\ task[t].pc = "llm"
    /\ \E place \in places :
       \/ /\ chatbot' = [chatbot EXCEPT !.conversations_count = task[t].count + 1,
                                        !.passed = @ + 1]
          /\ task' = SetTask(t, [task[t] EXCEPT !.pc = "send",
                                   !.calls = @ \o ReadCallsAt(task[t], place),
                                   !.count = @ + 1, !.path = "raised",
                                   !.final = <<"fallback_repeat">>])
       \/ \E d \in decisions, _usage \in usages :
            /\ chatbot' = [chatbot EXCEPT !.conversations_count = task[t].count + 1,
                                          !.passed = @ + 1,
                                          !.spent = @ + _usage]
            /\ task' = SetTask(t, [task[t] EXCEPT !.pc = "save_name",
                                     !.calls = @ \o ReadCallsAt(task[t], place),
                                     !.count = @ + 1, !.decision = d])
    /\ UNCHANGED <<now, tenants, instances, messages, bridge, webhook, forwarded,
                   whOpen, proc, spawned, contacts, dispatch>>

\* The counter increment and the call of the model, which answers with a
\* decision and its usage, which the engine drops, or raises.
EngDecideUse(t, decisions, usages, places) ==
    /\ task[t].pc = "llm"
    /\ \E place \in places :
       \/ /\ chatbot' = [chatbot EXCEPT !.conversations_count = task[t].count + 1,
                                        !.passed = @ + 1]
          /\ task' = SetTask(t, [task[t] EXCEPT !.pc = "done",
                                   !.calls = @ \o ReadCallsAt(task[t], place),
                                   !.count = @ + 1, !.path = "raised"])
       \/ \E d \in decisions, _usage \in usages :
            /\ chatbot' = [chatbot EXCEPT !.conversations_count = task[t].count + 1,
                                          !.passed = @ + 1,
                                          !.spent = @ + _usage]
            /\ task' = SetTask(t, [task[t] EXCEPT !.pc = "save_name",
                                     !.calls = @ \o ReadCallsAt(task[t], place),
                                     !.count = @ + 1, !.decision = d])
    /\ UNCHANGED <<now, tenants, instances, messages, bridge, webhook, forwarded,
                   whOpen, proc, spawned, contacts, dispatch>>

EngDecideOf(t, decisions) == EngDecideUse(t, decisions, {0}, {"in_time"})

EngDecide(t) == EngDecideOf(t, Decisions)

\* ---------------------------------------------- texts of the reply
\* A text is a sequence of characters, each a one-character string.
MAX_AI_CHARS_PER_MESSAGE == 750

HARD_MAX_MESSAGES_PER_REPLY == 4

\* str.isspace() for the characters of the model.
Blank == {" ", "\n"}

\* The one character U+2026 that _truncate appends.
Ellipsis == "~"

\* The first position from i on, going by step, that holds no blank.
RECURSIVE Solid(_, _, _)
Solid(text, i, step) ==
    IF i < 1 \/ i > Len(text) THEN i
    ELSE IF text[i] \in Blank THEN Solid(text, i + step, step) ELSE i

\* str.strip()
strip(text) == SubSeq(text, Solid(text, 1, 1), Solid(text, Len(text), 0 - 1))

\* Whether sub lies in text at the 0-based index i.
LiesAt(text, sub, i) == \A k \in DOMAIN sub : text[i + k] = sub[k]

\* The highest index of lo..hi at which sub lies in text, or -1; the upper
\* half is searched first.
RECURSIVE RFindIn(_, _, _, _)
RFindIn(text, sub, lo, hi) ==
    IF lo > hi THEN 0 - 1
    ELSE IF lo = hi THEN (IF LiesAt(text, sub, lo) THEN lo ELSE 0 - 1)
    ELSE LET mid == (lo + hi) \div 2
             up == RFindIn(text, sub, mid + 1, hi)
         IN IF up >= 0 THEN up ELSE RFindIn(text, sub, lo, mid)

\* str.rfind(sub, 0, end): the highest 0-based index at which sub lies
\* inside text[0:end], or -1.
rfind(text, sub, end) ==
    RFindIn(text, sub, 0, (IF end < Len(text) THEN end ELSE Len(text)) - Len(sub))

\* ChatbotEngine._truncate
_truncate(text, max_len) ==
    IF Len(text) <= max_len THEN text
    ELSE Append(SubSeq(text, 1, max_len - 1), Ellipsis)

\* The cut of one turn of the loop of _split_long_message: the last line
\* break, sentence end or space before the limit, or the limit itself.
SplitCut(remaining, limit) ==
    LET c1 == rfind(remaining, <<"\n">>, limit)
        c2 == IF c1 < limit \div 2 THEN rfind(remaining, <<".", " ">>, limit) ELSE c1
        c3 == IF c2 < limit \div 2 THEN rfind(remaining, <<" ">>, limit) ELSE c2
    IN IF c3 < 1 THEN limit ELSE c3

\* The while loop of _split_long_message.
RECURSIVE SplitLoop(_, _, _)
SplitLoop(remaining, chunks, limit) ==
    IF remaining = <<>> THEN chunks
    ELSE IF Len(remaining) <= limit THEN Append(chunks, strip(remaining))
    ELSE LET cut == SplitCut(remaining, limit)
             part == strip(SubSeq(remaining, 1, cut))
             grown == IF part # <<>> THEN Append(chunks, part) ELSE chunks
             rest == strip(SubSeq(remaining, cut + 1, Len(remaining)))
         IN IF Len(grown) >= HARD_MAX_MESSAGES_PER_REPLY * 3
            THEN IF rest # <<>> THEN Append(grown, _truncate(rest, limit)) ELSE grown
            ELSE SplitLoop(rest, grown, limit)

\* ChatbotEngine._split_long_message
_split_long_message(text, limit) ==
    LET body == strip(text) IN
    IF body = <<>> THEN <<>>
    ELSE IF Len(body) <= limit THEN <<body>>
    ELSE SelectSeq(SplitLoop(body, <<>>, limit), LAMBDA c : c # <<>>)

\* AIDecision.normalize: the messages stripped, the empty ones dropped.
RECURSIVE normalize(_)
normalize(ms) ==
    IF ms = <<>> THEN <<>>
    ELSE (IF strip(Head(ms)) = <<>> THEN <<>> ELSE <<strip(Head(ms))>>)
         \o normalize(Tail(ms))

\* 6.4: the pieces of every message, one after the other.
RECURSIVE SplitAll(_)
SplitAll(ms) ==
    IF ms = <<>> THEN <<>>
    ELSE _split_long_message(Head(ms), MAX_AI_CHARS_PER_MESSAGE) \o SplitAll(Tail(ms))

\* The fallback phrase, a fixed short sentence.
FallbackRepeat == <<"D", "e", "s", "c", "u", "l", "p", "a", "!">>

FinalUncapped(ms) ==
    LET pieces == SplitAll(normalize(ms))
    IN IF pieces = <<>> THEN <<FallbackRepeat>> ELSE pieces

\* 6.4: the split, the fallback and the cap of the reply.
FinalMessages(ms) ==
    LET pieces == SplitAll(normalize(ms))
        all == IF pieces = <<>> THEN <<FallbackRepeat>> ELSE pieces
    IN SubSeq(all, 1, IF Len(all) < HARD_MAX_MESSAGES_PER_REPLY THEN Len(all)
                      ELSE HARD_MAX_MESSAGES_PER_REPLY)

\* 6.4 for the replies whose messages are named, not spelled: at most
\* four short texts, which the split and the cap leave as they are.
NamedMessages(ms) == IF ms = <<>> THEN <<"fallback_repeat">> ELSE ms

\* 6.1: the name the decision asks to save; then the split and the cap of
\* the reply.
EngSaveNameBy(t, Final(_)) ==
    /\ task[t].pc = "save_name"
    /\ LET c == task[t].contact
           d == task[t].decision
           write == d.save_name # None /\ _validate_name(d.save_name)
                    /\ c.push_name # d.save_name
       IN /\ contacts' = IF write
                         THEN SavePushName(task[t].jid, d.save_name) ELSE contacts
          /\ task' = SetTask(t, [task[t] EXCEPT
                       !.pc = IF d.reaction_emoji # None /\ task[t].message_key
                              THEN "react"
                              ELSE IF d.transfer THEN "transfer" ELSE "send",
                       !.path = IF d.transfer THEN "transfer" ELSE "send",
                       !.final = IF d.transfer THEN <<"transfer">>
                                 ELSE Final(d.messages),
                       !.contact = IF write THEN [c EXCEPT !.push_name = d.save_name]
                                   ELSE c])
    /\ UNCHANGED <<now, tenants, instances, messages, bridge, webhook, forwarded,
                   whOpen, proc, spawned, chatbot, dispatch>>

EngSaveName(t) == EngSaveNameBy(t, NamedMessages)

\* _send_text run to its end against the Bridge as it stands: what it
\* returns, the engine's instance object and the instance rows afterwards.
SendTextDenied(s, inst, rows) ==
    UNION { LET r == sync_instance_token(inst, out)
                rows2 == [rows EXCEPT ![s] =
                            SaveRow(@, r.inst, r.changed, OwnerValid(inst))]
                inst2 == IF r.ret THEN rows2[s] ELSE r.inst
            IN IF r.ret
               THEN { [sent |-> o = "ok", inst |-> inst2, rows |-> rows2,
                       first |-> "denied", final |-> o, heals |-> 1, reqs |-> 2] :
                        o \in SendOutcomes(s, inst2.token) }
               ELSE { [sent |-> FALSE, inst |-> inst2, rows |-> rows2,
                       first |-> "denied", final |-> "denied", heals |-> 1,
                       reqs |-> 1] }
          : out \in ListOutcomes(s) }

SendTextResults(s, inst, rows) ==
    UNION { IF o = "denied" THEN SendTextDenied(s, inst, rows)
            ELSE { [sent |-> o = "ok", inst |-> inst, rows |-> rows,
                    first |-> o, final |-> o, heals |-> 0, reqs |-> 1] }
          : o \in SendOutcomes(s, inst.token) }

\* _safe_request: _request returns the pair (ok, body), so the test
\* isinstance(resp, dict) never holds and neither except clause is
\* reached: one request, no self-heal, and (True, resp) whatever the answer.
_safe_request(s, inst, rows) ==
    { [sent |-> TRUE, inst |-> inst, rows |-> rows,
       first |-> o, final |-> o, heals |-> 0, reqs |-> 1] :
        o \in SendOutcomes(s, inst.token) }



ALLOWED_REACTIONS == {"thumbs_up", "heart", "fire"}

\* 6.2: the reaction, sent when the emoji is one of the allowed ones; what
\* the call reports is dropped.
EngReact(t) ==
    /\ task[t].pc = "react"
    /\ LET next == IF task[t].decision.transfer THEN "transfer" ELSE "send" IN
       IF task[t].decision.reaction_emoji \in ALLOWED_REACTIONS
       THEN \E r \in _safe_request(task[t].sess, task[t].inst, instances) :
              task' = SetTask(t, [task[t] EXCEPT !.pc = next,
                                    !.calls = Append(@, SafeRow("reaction", 0, r))])
       ELSE task' = SetTask(t, [task[t] EXCEPT !.pc = next])
    /\ UNCHANGED <<now, tenants, instances, messages, bridge, webhook, forwarded,
                   whOpen, proc, spawned, contacts, chatbot, dispatch>>

BotRow(t, content) ==
    [instance |-> task[t].sess, remote_jid |-> task[t].jid, from_me |-> TRUE,
     push_name |-> "bot", content |-> content, wamid |-> None, by |-> t]

SaveFirst(rows, row) == <<row>> \o rows

\* _save_bot_message
_save_bot_message(rows, row) == Append(rows, row)

EngTransferGoOn(t) ==
    /\ task[t].pc = "transfer"
    /\ \E r \in SendTextResults(task[t].sess, task[t].inst, instances) :
         /\ instances' = r.rows
         /\ whOpen' = IF r.rows # instances THEN OtherWrite(task[t].sess) ELSE whOpen
         /\ messages' = _save_bot_message(messages, BotRow(t, task[t].final[1]))
         /\ task' = SetTask(t, [task[t] EXCEPT !.pc = "send", !.inst = r.inst,
                                  !.idx = 1, !.log = <<r.sent>>,
                                  !.calls = Append(@, CallRow("text", 1, r))])
    /\ UNCHANGED <<now, tenants, bridge, webhook, forwarded, proc, spawned,
                   contacts, chatbot, dispatch>>

\* 6.3: the transfer text is sent and stored, and the task ends.
EngTransfer(t) ==
    /\ task[t].pc = "transfer"
    /\ \E r \in SendTextResults(task[t].sess, task[t].inst, instances) :
         /\ instances' = r.rows
         /\ whOpen' = IF r.rows # instances THEN OtherWrite(task[t].sess) ELSE whOpen
         /\ messages' = _save_bot_message(messages, BotRow(t, task[t].final[1]))
         /\ task' = SetTask(t, [task[t] EXCEPT !.pc = "done", !.inst = r.inst,
                                  !.idx = 1, !.log = <<r.sent>>,
                                  !.calls = Append(@, CallRow("text", 1, r))])
    /\ UNCHANGED <<now, tenants, bridge, webhook, forwarded, proc, spawned,
                   contacts, chatbot, dispatch>>

\* 6.6: one turn of the send loop; a message is stored when its send
\* reported success.
EngSendOf(t, places) ==
    /\ task[t].pc = "send"
    /\ IF task[t].idx = Len(task[t].final)
       THEN /\ task' = SetTask(t, [task[t] EXCEPT
                         !.pc = IF chatbot.allow_media_response
                                   /\ task[t].decision.send_media_id # None
                                THEN "media" ELSE "done"])
            /\ UNCHANGED <<instances, whOpen, messages>>
       ELSE LET d == task[t].decision
                i == task[t].idx
                msg == task[t].final[i + 1]
                ms == IF i > 0 THEN DelayBefore(d, i) ELSE 0
                quoted == i = 0 /\ d.quote /\ task[t].quoted_message
                Step(kinds, r) ==
                  \E place \in places :
                  /\ instances' = r.rows
                  /\ whOpen' = IF r.rows # instances THEN OtherWrite(task[t].sess)
                               ELSE whOpen
                  /\ messages' = IF r.sent
                                 THEN _save_bot_message(messages, BotRow(t, msg))
                                 ELSE messages
                  /\ task' = SetTask(t, [task[t] EXCEPT !.inst = r.inst,
                                           !.idx = @ + 1,
                                           !.log = Append(@, r.sent),
                                           !.calls = @ \o TypedSend(ms, kinds, place)])
            IN IF quoted
               THEN \E q \in _safe_request(task[t].sess, task[t].inst, instances) :
                      IF q.sent
                      THEN Step(<<SafeRow("quote", i + 1, q)>>, q)
                      ELSE \E r \in SendTextResults(task[t].sess, task[t].inst,
                                                    instances) :
                             Step(<<SafeRow("quote", i + 1, q),
                                    CallRow("text", i + 1, r)>>, r)
               ELSE \E r \in SendTextResults(task[t].sess, task[t].inst, instances) :
                      Step(<<CallRow("text", i + 1, r)>>, r)
    /\ UNCHANGED <<now, tenants, bridge, webhook, forwarded, proc, spawned,
                   contacts, chatbot, dispatch>>

EngSend(t) == EngSendOf(t, {"in_time"})

\* 6.7: the media file after the texts; _send_media heals and retries as
\* _send_text does and returns False when the file cannot be read.
EngMedia(t) ==
    /\ task[t].pc = "media"
    /\ \/ /\ task' = SetTask(t, [task[t] EXCEPT !.pc = "done"])
          /\ UNCHANGED <<instances, whOpen, messages>>
       \/ \E r \in SendTextResults(task[t].sess, task[t].inst, instances) :
            /\ instances' = r.rows
            /\ whOpen' = IF r.rows # instances THEN OtherWrite(task[t].sess)
                         ELSE whOpen
            /\ messages' = IF r.sent
                           THEN _save_bot_message(messages, BotRow(t, "[media]"))
                           ELSE messages
            /\ task' = SetTask(t, [task[t] EXCEPT !.pc = "done", !.inst = r.inst,
                                     !.calls = Append(@, CallRow("media", 0, r))])
    /\ UNCHANGED <<now, tenants, bridge, webhook, forwarded, proc, spawned,
                   contacts, chatbot, dispatch>>

InitEngine ==
    /\ now = 0
    /\ tenants = [t \in Tenants |-> TenantInit]
    /\ instances = [s \in {"s1"} |->
                      [NewRow("t1") EXCEPT !.status = "CONNECTED", !.token = "T1"]]
    /\ messages = <<>>
    /\ bridge \in [{"s1"} -> { [present |-> TRUE, status |-> "open",
                                 token |-> k, phoneNumber |-> None] : k \in Tokens }]
    /\ webhook = [s \in {"s1"} |-> NoHook]
    /\ forwarded = {}
    /\ whOpen = [s \in {"s1"} |-> None]
    /\ proc = [p \in Procs |-> Idle]
    /\ EngineIdle
    /\ DispatchIdle

NextEngine ==
    \/ ListenerChat("p2")
    \/ ListenerCreate("p2")
    \/ Return("p2")
    \/ \E t \in DOMAIN task :
         \/ EngStart(t)
         \/ EngDenial(t)
         \/ EngExplicit(t)
         \/ EngBare(t)
         \/ EngDecide(t)
         \/ EngSaveName(t)
         \/ EngTransfer(t)
         \/ EngSend(t)

SpecEngine == InitEngine /\ [][NextEngine]_vars

\* ------------------------------------------------------- token gate
MaxTasks == 2

\* An inbound message for the chatbot once the tasks before it have ended.
TokenStart ==
    /\ Len(task) < MaxTasks
    /\ \A t \in DOMAIN task : task[t].pc = "done"
    /\ \E s \in Sessions :
         /\ instances[s].exists
         /\ LET ev == [NoEv EXCEPT !.type = "message", !.wamid = "w1", !.jid = "j1",
                                   !.content = "ok 123", !.pushName = "Zed"]
            IN /\ spawned' = Append(spawned, [wamid |-> ev.wamid, jid |-> ev.jid,
                                              via |-> "call"])
               /\ task' = Append(task, NewTask(instances[s], s, ev))
    /\ UNCHANGED <<now, tenants, instances, messages, bridge, webhook, forwarded,
                   whOpen, proc, contacts, chatbot, dispatch>>

\* The usage the model reports for one call.
Usages == {0, 2}

TokenDecide(t) == EngDecideUse(t, Decisions, Usages, {"in_time"})

\* Chatbots of every token setting: unlimited or limited, with the limit 0
\* or 2, below the limit, at it and above it.
InitTokens ==
    /\ now = 0
    /\ tenants = [t \in Tenants |-> TenantInit]
    /\ instances = [s \in {"s1"} |->
                      [NewRow("t1") EXCEPT !.status = "CONNECTED", !.token = "T1"]]
    /\ messages = <<>>
    /\ bridge = [s \in {"s1"} |-> [present |-> TRUE, status |-> "open",
                                   token |-> "T1", phoneNumber |-> None]]
    /\ webhook = [s \in {"s1"} |-> NoHook]
    /\ forwarded = {}
    /\ whOpen = [s \in {"s1"} |-> None]
    /\ proc = [p \in Procs |-> Idle]
    /\ spawned = <<>>
    /\ contacts = [j \in Jids |-> NoContact]
    /\ task = <<>>
    /\ chatbot \in { [active |-> TRUE, conversations_count |-> 0,
                      periodicity |-> "infinity", max_conversations |-> 1,
                      last_reset_date |-> 0, passed |-> 0,
                      simulate_typing |-> TRUE, allow_media_response |-> TRUE,
                      token_usage_type |-> ty, token_limit |-> lim,
                      current_tokens_used |-> used, spent |-> 0] :
                      ty \in {"infinity", "lifetime"}, lim \in {0, 2},
                      used \in {0, 2, 3} }
    /\ DispatchIdle

NextTokens ==
    \/ TokenStart
    \/ \E t \in DOMAIN task :
         \/ EngStart(t)
         \/ EngDenial(t)
         \/ EngExplicit(t)
         \/ EngBare(t)
         \/ TokenDecide(t)
         \/ EngSaveName(t)
         \/ EngTransfer(t)
         \/ EngSend(t)

SpecTokens == InitTokens /\ [][NextTokens]_vars

\* ------------------------------------------------- dispatch queue worker
MaxClock == 4
MaxItems == 3

Workers == {"w1", "w2"}

\* The campaign's delay window, in seconds.
min_delay_seconds == 2
max_delay_seconds == 3

DispatchTick ==
    /\ now < MaxClock
    /\ now' = now + 1
    /\ UNCHANGED <<tenants, instances, messages, bridge, webhook, forwarded,
                   whOpen, proc, engineVars, dispatch>>

AvailableAlways(next, t) == TRUE

\* An instance is free for dispatch once its next_available_at is reached.
DispatchAvailable(next, t) == next = NoDate \/ next <= t

SetWorker(w, rec) == [dispatch.worker EXCEPT ![w] = rec]

\* A worker takes the instance and one due item, marks it SENDING.
DispatchPick(w) ==
    /\ dispatch.worker[w].pc = "idle"
    /\ dispatch.held = None
    /\ DispatchAvailable(dispatch.next_available_at, now)
    /\ \E i \in DOMAIN dispatch.items :
         /\ dispatch.items[i] = "QUEUED"
         /\ \A k \in DOMAIN dispatch.items : dispatch.items[k] = "QUEUED" => i <= k
         /\ dispatch' = [dispatch EXCEPT
                           !.held = w,
                           !.items[i] = "SENDING",
                           !.worker = SetWorker(w, [pc |-> "send", item |-> i,
                                         pickedAt |-> now,
                                         pickedNext |-> dispatch.next_available_at])]
    /\ UNCHANGED <<now, tenants, instances, messages, bridge, webhook, forwarded,
                   whOpen, proc, engineVars>>

\* The Bridge send of the item: SENT or FAILED.
DispatchSend(w) ==
    /\ dispatch.worker[w].pc = "send"
    /\ \E ok \in BOOLEAN :
         dispatch' = [dispatch EXCEPT
                        !.items[dispatch.worker[w].item] =
                            IF ok THEN "SENT" ELSE "FAILED",
                        !.sentAt = IF ok THEN Append(@, now) ELSE @,
                        !.worker = SetWorker(w, [dispatch.worker[w] EXCEPT
                                                   !.pc = "release"])]
    /\ UNCHANGED <<now, tenants, instances, messages, bridge, webhook, forwarded,
                   whOpen, proc, engineVars>>

\* next_available_at is set, then the instance is released.
DispatchRelease(w) ==
    /\ dispatch.worker[w].pc = "release"
    /\ \E d \in min_delay_seconds..max_delay_seconds :
         dispatch' = [dispatch EXCEPT
                        !.next_available_at = now + d,
                        !.held = None,
                        !.worker = SetWorker(w, NoWorker)]
    /\ UNCHANGED <<now, tenants, instances, messages, bridge, webhook, forwarded,
                   whOpen, proc, engineVars>>

InitDispatch ==
    /\ now = 0
    /\ tenants = [t \in Tenants |-> TenantInit]
    /\ instances = [s \in {"s1"} |->
                      [NewRow("t1") EXCEPT !.status = "CONNECTED", !.token = "T1"]]
    /\ messages = <<>>
    /\ bridge = [s \in {"s1"} |-> [present |-> TRUE, status |-> "open",
                                   token |-> "T1", phoneNumber |-> None]]
    /\ webhook = [s \in {"s1"} |-> NoHook]
    /\ forwarded = {}
    /\ whOpen = [s \in {"s1"} |-> None]
    /\ proc = [p \in Procs |-> Idle]
    /\ EngineIdle
    /\ dispatch = [next_available_at |-> NoDate, held |-> None,
                   items |-> [i \in 1..MaxItems |-> "QUEUED"],
                   sentAt |-> <<>>, worker |-> [w \in Workers |-> NoWorker]]

NextDispatch ==
    \/ DispatchTick
    \/ \E w \in Workers :
         \/ DispatchPick(w)
         \/ DispatchSend(w)
         \/ DispatchRelease(w)

SpecDispatch == InitDispatch /\ [][NextDispatch]_vars

\* ------------------------------------------- northbound API gateway
\* HasInstanceToken: the sessions whose stored token is the bearer.
BearerSessions(bearer) ==
    { s \in Sessions : instances[s].exists /\ bearer # None
                       /\ instances[s].token = bearer }

ReadyByPlan(u, t) == u.api /\ is_plan_valid(u, t)

\* validate_instance_ready: the api flag and the expiry date of the owner.
validate_instance_ready(u, t) ==
    u.api /\ u.plan_end_date # NoDate /\ ~(u.plan_end_date < t)

Forbidden == [code |-> 403, status |-> "forbidden", token |-> None]

\* SendMessageGateway.post up to the end of the pre-send check.
GatewayCheck(p) ==
    /\ proc[p].pc = "idle"
    /\ Len(messages) < MaxRows
    /\ \E bearer \in Tokens \cup {None} :
         IF BearerSessions(bearer) = {}
         THEN proc' = Set(p, [Idle EXCEPT !.pc = "done", !.op = "gateway",
                                !.rt = bearer, !.at = now, !.seen = "reject",
                                !.resp = Forbidden])
         ELSE \E s \in BearerSessions(bearer) :
                LET ok == validate_instance_ready(tenants[instances[s].owner], now)
                IN proc' = Set(p, [Idle EXCEPT
                             !.pc = IF ok THEN "gw_send" ELSE "done",
                             !.op = "gateway", !.sess = s, !.inst = instances[s],
                             !.rt = bearer, !.at = now,
                             !.seen = IF ok THEN "pass" ELSE "reject",
                             !.resp = IF ok THEN NoResp ELSE Forbidden])
    /\ UNCHANGED <<now, tenants, instances, messages, bridge, webhook, forwarded,
                   whOpen, engineVars, dispatch>>

\* The serializer, the Bridge send with the instance token, the stored row.
GatewaySend(p) ==
    /\ proc[p].pc = "gw_send"
    /\ \/ /\ proc' = Set(p, [proc[p] EXCEPT !.pc = "done",
                               !.resp = [code |-> 400, status |-> "invalid",
                                         token |-> None]])
          /\ UNCHANGED messages
       \/ \E outcome \in SendOutcomes(proc[p].sess, proc[p].inst.token) :
            /\ messages' = IF outcome = "ok"
                           THEN Append(messages,
                                  [instance |-> proc[p].sess, remote_jid |-> "j1",
                                   from_me |-> TRUE, push_name |-> None,
                                   content |-> "hi", wamid |-> None, by |-> 0])
                           ELSE messages
            /\ proc' = Set(p, [proc[p] EXCEPT !.pc = "done", !.sends = 1,
                                 !.first = outcome,
                                 !.hdr = RequestHeaders(proc[p].inst.token),
                                 !.attempts = RequestAttempts,
                                 !.resp = [code |-> IF outcome = "ok" THEN 200
                                                    ELSE 500,
                                           status |-> outcome, token |-> None]])
    /\ UNCHANGED <<now, tenants, instances, bridge, webhook, forwarded, whOpen,
                   engineVars, dispatch>>

\* Tenants of every kind: with or without a plan, on a lifetime plan or
\* with an end date, with or without the api flag.
InitGate ==
    /\ now = 0
    /\ tenants \in [Tenants -> { [plan |-> pl, plan_end_date |-> e, api |-> a,
                                  max_instances |-> 1] :
                                  pl \in BOOLEAN, e \in {NoDate, 0, 1},
                                  a \in BOOLEAN }]
    /\ instances = [s \in {"s1"} |->
                      [NewRow("t1") EXCEPT !.status = "CONNECTED", !.token = "T1"]]
    /\ messages = <<>>
    /\ bridge = [s \in {"s1"} |-> [present |-> TRUE, status |-> "open",
                                   token |-> "T1", phoneNumber |-> None]]
    /\ webhook = [s \in {"s1"} |-> NoHook]
    /\ forwarded = {}
    /\ whOpen = [s \in {"s1"} |-> None]
    /\ proc = [p \in Procs |-> Idle]
    /\ EngineIdle
    /\ DispatchIdle

NextGate ==
    \/ Tick
    \/ GatewayCheck("p1")
    \/ GatewaySend("p1")
    \/ Return("p1")

SpecGate == InitGate /\ [][NextGate]_vars

\* ------------------------------------------------------- quota runs
\* The clock moves to any later instant of the calendar.
QuotaTick ==
    /\ now < Len(Calendar) - 1
    /\ \E t \in (now + 1)..(Len(Calendar) - 1) : now' = t
    /\ UNCHANGED <<tenants, instances, messages, bridge, webhook, forwarded,
                   whOpen, proc, engineVars, dispatch>>

QuotaEvents ==
    { [NoEv EXCEPT !.type = "message", !.wamid = w, !.jid = "j1",
                   !.content = "ok 123", !.pushName = "Zed"] : w \in {"w1", "w2"} }

QuotaChat(p) == ListenerRead(p, QuotaEvents)

\* A chatbot of every periodicity, just below and at its limit, last reset
\* on the first day of the calendar.
InitQuota ==
    /\ now = 0
    /\ tenants = [t \in Tenants |-> [TenantInit EXCEPT !.plan_end_date = NoDate]]
    /\ instances = [s \in {"s1"} |->
                      [NewRow("t1") EXCEPT !.status = "CONNECTED", !.token = "T1"]]
    /\ messages = <<>>
    /\ bridge = [s \in {"s1"} |-> [present |-> TRUE, status |-> "open",
                                   token |-> "T1", phoneNumber |-> None]]
    /\ webhook = [s \in {"s1"} |-> NoHook]
    /\ forwarded = {}
    /\ whOpen = [s \in {"s1"} |-> None]
    /\ proc = [p \in Procs |-> Idle]
    /\ spawned = <<>>
    /\ contacts = [j \in Jids |-> NoContact]
    /\ task = <<>>
    /\ chatbot \in { [active |-> TRUE, conversations_count |-> c,
                      periodicity |-> per, max_conversations |-> 1000,
                      last_reset_date |-> l, passed |-> c,
                      simulate_typing |-> TRUE, allow_media_response |-> TRUE,
                      token_usage_type |-> "infinity", token_limit |-> 0,
                      current_tokens_used |-> 0, spent |-> 0] :
                      c \in {999, 1000},
                      per \in Periodicities \cup {"infinity", "None"},
                      l \in {0} }
    /\ DispatchIdle

\* The tasks are followed up to the model's decision; the reply steps after
\* it do not touch the chatbot row.
NextQuota ==
    \/ QuotaTick
    \/ QuotaChat("p2")
    \/ ListenerCreate("p2")
    \/ Return("p2")
    \/ \E t \in DOMAIN task :
         \/ EngStart(t)
         \/ EngDenial(t)
         \/ EngExplicit(t)
         \/ EngBare(t)
         \/ EngDecide(t)

SpecQuota == InitQuota /\ [][NextQuota]_vars

\* --------------------------------------------------- tenant callback
\* Events that steps 5 and 6 of post leave alone.
OtherEvents == { [NoEv EXCEPT !.type = t] : t \in {"presence", "ack"} }

\* post for such an event: the plan lock, then step 7.
WebhookOther(p) ==
    /\ proc[p].pc = "idle"
    /\ \E s \in Sessions, ev \in OtherEvents, key \in Keys :
         /\ WhRejectCode(key, TRUE, s) = 0
         /\ LET e == [ev EXCEPT !.key = key] IN
            \/ WhPlanGate(p, s, e)
            \/ /\ OwnerValid(instances[s])
               /\ proc' = Set(p, [Idle EXCEPT !.pc = "done", !.op = "webhook",
                                    !.sess = s, !.ev = e, !.inst = instances[s],
                                    !.posts = WhPosts(s, e.type),
                                    !.resp = Processed])
               /\ forwarded' = WhForward(s, e.type)
               /\ UNCHANGED <<instances, messages, whOpen>>
    /\ UNCHANGED <<now, tenants, bridge, webhook, engineVars, dispatch>>

\* Every webhook configuration, with the tenant's endpoint up or down.
InitHook ==
    /\ now = 0
    /\ tenants = [t \in Tenants |-> TenantInit]
    /\ instances = [s \in {"s1"} |-> NewRow("t1")]
    /\ messages = <<>>
    /\ bridge = [s \in {"s1"} |-> NoEntry]
    /\ webhook \in [{"s1"} -> { [url |-> u, send_messages |-> m,
                                 send_presence |-> pr, up |-> up] :
                                 u, m, pr, up \in BOOLEAN }]
    /\ forwarded = {}
    /\ whOpen = [s \in {"s1"} |-> None]
    /\ proc = [p \in Procs |-> Idle]
    /\ EngineIdle
    /\ DispatchIdle

NextHook ==
    \/ Tick
    \/ WebhookReject("p1")
    \/ WebhookConn("p1")
    \/ WebhookSync("p1")
    \/ WebhookMsg("p1")
    \/ WebhookCreate("p1")
    \/ WebhookOther("p1")
    \/ Return("p1")

SpecHook == InitHook /\ [][NextHook]_vars

\* ------------------------------------------------------- reply runs
\* process_incoming_message called for one inbound text, with or without
\* the quoted message and the message key of that text.
ReplyStart ==
    /\ task = <<>>
    /\ \E s \in Sessions, k, q \in BOOLEAN :
         /\ instances[s].exists
         /\ LET ev == [NoEv EXCEPT !.type = "message", !.wamid = "w1", !.jid = "j1",
                                   !.content = "ok 123", !.pushName = "Zed"]
            IN /\ spawned' = Append(spawned, [wamid |-> ev.wamid, jid |-> ev.jid,
                                              via |-> "call"])
               /\ task' = Append(task, [NewTask(instances[s], s, ev) EXCEPT
                                          !.message_key = k, !.quoted_message = q])
    /\ UNCHANGED <<now, tenants, instances, messages, bridge, webhook, forwarded,
                   whOpen, proc, contacts, chatbot, dispatch>>

\* Decisions with every optional action set or not.
ReplyDecisions ==
    { [save_name |-> n, transfer |-> tr, messages |-> ms, delays_ms |-> dl,
       quote |-> q, reaction_emoji |-> e, send_media_id |-> md] :
        n \in {None, "Bob"}, tr \in BOOLEAN, ms \in {<<>>, <<"m1", "m2">>},
        dl \in {<<>>, <<0>>}, q \in BOOLEAN, e \in {None, "thumbs_up", "poo"},
        md \in {None, "med1"} }

ReplyDecide(t) == EngDecideUse(t, ReplyDecisions, {0}, KeepalivePlaces)

ReplySend(t) == EngSendOf(t, ComposingPlaces)

InitReply ==
    /\ now = 0
    /\ tenants = [t \in Tenants |-> TenantInit]
    /\ instances = [s \in {"s1"} |->
                      [NewRow("t1") EXCEPT !.status = "CONNECTED", !.token = "T1"]]
    /\ messages = <<>>
    /\ bridge \in [{"s1"} -> { [present |-> TRUE, status |-> "open",
                                 token |-> k, phoneNumber |-> None] : k \in Tokens }]
    /\ webhook = [s \in {"s1"} |-> NoHook]
    /\ forwarded = {}
    /\ whOpen = [s \in {"s1"} |-> None]
    /\ proc = [p \in Procs |-> Idle]
    /\ spawned = <<>>
    /\ contacts = [j \in Jids |-> NoContact]
    /\ task = <<>>
    /\ chatbot \in { [active |-> TRUE, conversations_count |-> 0,
                      periodicity |-> "infinity", max_conversations |-> 1,
                      last_reset_date |-> 0, passed |-> 0,
                      simulate_typing |-> st, allow_media_response |-> am,
                      token_usage_type |-> "infinity", token_limit |-> 0,
                      current_tokens_used |-> 0, spent |-> 0] :
                      st, am \in BOOLEAN }
    /\ DispatchIdle

NextReply ==
    \/ ReplyStart
    \/ \E t \in DOMAIN task :
         \/ EngStart(t)
         \/ EngDenial(t)
         \/ EngExplicit(t)
         \/ EngBare(t)
         \/ ReplyDecide(t)
         \/ EngSaveName(t)
         \/ EngReact(t)
         \/ EngTransfer(t)
         \/ ReplySend(t)
         \/ EngMedia(t)

SpecReply == InitReply /\ [][NextReply]_vars

\* ------------------------------------------------------ long replies
Rep(c, n) == <<>> \o [i \in 1..n |-> c]

\* Texts that take every branch of the split: short, padded, blank, of the
\* limit exactly, one over it without a separator, with a line break after
\* the middle, with a sentence end after the middle, with a space only, with
\* a space right at the start, and thirteen pieces long.
Unit == <<"x", " ">> \o Rep("b", 750)

Thirteen == Unit \o Unit \o Unit \o Unit \o Unit \o Unit \o Rep("c", 800)

SplitTexts ==
    { <<"a", "b", "c">>,
      <<" ", "a", "b", "\n">>,
      <<" ", " ">>,
      Rep("a", 750),
      Rep("a", 750) \o <<"b">>,
      Rep("a", 400) \o <<"\n">> \o Rep("b", 400),
      Rep("a", 100) \o <<"\n">> \o Rep("b", 300) \o <<".", " ">> \o Rep("c", 400),
      Rep("a", 100) \o <<".", " ">> \o Rep("b", 100) \o <<" ">> \o Rep("c", 700),
      <<"a", " ">> \o Rep("b", 800),
      Thirteen }

\* The texts that come in pairs.
PairTexts ==
    { <<"a", "b", "c">>,
      <<" ", " ">>,
      Rep("a", 750) \o <<"b">>,
      Rep("a", 400) \o <<"\n">> \o Rep("b", 400) }

\* The messages of a decision: none, one of the texts, two of the texts
\* that come in pairs, five short ones, and three whose pieces are five.
SplitInputs ==
    {<<>>}
    \cup { <<x>> : x \in SplitTexts }
    \cup { <<x, y>> : x, y \in PairTexts }
    \cup { [i \in 1..5 |-> <<"a", "b", "c">>],
           << <<"a", "b", "c">>, Rep("a", 400) \o <<"\n">> \o Rep("b", 400),
              Rep("a", 750) \o <<"b">> >> }

SplitDecisions == { [NoDecision EXCEPT !.messages = ms] : ms \in SplitInputs }

SplitDecide(t) == EngDecideUse(t, SplitDecisions, {0}, {"in_time"})

SplitSaveName(t) == EngSaveNameBy(t, FinalMessages)

InitSplit ==
    /\ now = 0
    /\ tenants = [t \in Tenants |-> TenantInit]
    /\ instances = [s \in {"s1"} |->
                      [NewRow("t1") EXCEPT !.status = "CONNECTED", !.token = "T1"]]
    /\ messages = <<>>
    /\ bridge = [s \in {"s1"} |-> [present |-> TRUE, status |-> "open",
                                   token |-> "T1", phoneNumber |-> None]]
    /\ webhook = [s \in {"s1"} |-> NoHook]
    /\ forwarded = {}
    /\ whOpen = [s \in {"s1"} |-> None]
    /\ proc = [p \in Procs |-> Idle]
    /\ EngineIdle
    /\ DispatchIdle

NextSplit ==
    \/ ReplyStart
    \/ \E t \in DOMAIN task :
         \/ EngStart(t)
         \/ EngDenial(t)
         \/ EngExplicit(t)
         \/ EngBare(t)
         \/ SplitDecide(t)
         \/ SplitSaveName(t)
         \/ EngSend(t)

SpecSplit == InitSplit /\ [][NextSplit]_vars

\* ------------------------------------------------------------ claims
HealPending(s) ==
    \E p \in Procs : proc[p].sess = s /\ proc[p].pc \in {"wh_sync", "poll_sync"}

\* C1: for every wamid at most one Message row exists, whatever the
\* interleaving of webhook and listener deliveries of the same event.
C1_UniqueWamid ==
    \A w \in Wamids :
      Cardinality({ i \in DOMAIN messages : messages[i].wamid = w }) <= 1

C1_Witness ==
    \E p \in Procs :
      /\ proc[p].pc = "done"
      /\ proc[p].dup
      /\ Cardinality({ i \in DOMAIN messages : messages[i].wamid = proc[p].ev.wamid }) = 1

\* C11: two successful dispatch sends of one instance lie at least
\* min_delay_seconds apart, next_available_at is never set closer than
\* min_delay_seconds nor farther than max_delay_seconds from the send before
\* it, and a worker holds an item only when it picked it at or after the
\* next_available_at it found, also with two workers.
C11_Pacing ==
    LET t == dispatch.sentAt IN
    /\ \A i, j \in DOMAIN t : i < j => t[j] - t[i] >= min_delay_seconds
    /\ \A w \in DOMAIN dispatch.worker :
         dispatch.worker[w].pc # "idle" =>
           /\ dispatch.held = w
           /\ DispatchAvailable(dispatch.worker[w].pickedNext,
                                dispatch.worker[w].pickedAt)
    /\ (Len(t) > 0 /\ dispatch.held = None) =>
         /\ dispatch.next_available_at >= t[Len(t)] + min_delay_seconds
         /\ dispatch.next_available_at <= now + max_delay_seconds

C11_Witness ==
    /\ Len(dispatch.sentAt) = 2
    /\ dispatch.sentAt[2] - dispatch.sentAt[1] = min_delay_seconds
    /\ \E w \in DOMAIN dispatch.worker : dispatch.worker[w].pc = "release"

\* C12: every stored instance whose owner is not plan-valid has status
\* DISCONNECTED.
C12_ExpiredDisconnected ==
    \A s \in Sessions :
      (instances[s].exists /\ ~OwnerValid(instances[s]))
        => instances[s].status = "DISCONNECTED"

\* C13: the stored status of every instance is one of CREATED, QR_SCANNED,
\* CONNECTED, DISCONNECTED, BAN; the Bridge's raw open and close are never
\* stored.
C13_StatusDomain ==
    \A s \in Sessions :
      instances[s].exists => instances[s].status \in STATUS_CHOICES

\* C14: a northbound request passes the pre-send check exactly when its
\* bearer resolves to an instance whose owner is plan-valid at that moment
\* and has the api flag; a request that does not pass is answered 403 and
\* makes no Bridge call.
C14_PreSendCheck ==
    \A p \in Procs :
      (proc[p].op = "gateway" /\ proc[p].pc \in {"gw_send", "done"}) =>
        LET resolved == proc[p].sess # None
            ok == resolved /\ ReadyByPlan(tenants[proc[p].inst.owner], proc[p].at)
        IN /\ (proc[p].seen = "pass") <=> ok
           /\ proc[p].seen = "reject" =>
                (proc[p].resp.code = 403 /\ proc[p].sends = 0)

\* C15: the quota gate resets the counter (counter 0, last_reset_date now)
\* exactly when the calendar bucket of now for the plan's periodicity (day,
\* month, quarter, half-year, year, the year always compared) differs from
\* the bucket of last_reset_date, and then lets the message through exactly
\* when the counter is below the plan limit; the counter of a message that
\* reaches the model is one more than the counter the gate left.
Bucket(periodicity, d) ==
    CASE periodicity = "daily" -> <<d.year, d.month, d.day>>
      [] periodicity = "monthly" -> <<d.year, d.month>>
      [] periodicity = "quarterly" -> <<d.year, (d.month - 1) \div 3>>
      [] periodicity = "semiannual" -> <<d.year, (d.month - 1) \div 6>>
      [] periodicity = "yearly" -> <<d.year>>

Gated(t) == task[t].gate.at # NoDate

C15_QuotaGate ==
    [][\A t \in DOMAIN task' :
         (chatbot.periodicity \in Periodicities /\ t \in DOMAIN task) =>
           /\ (~Gated(t) /\ Gated(t)') =>
                LET g == task'[t].gate
                    rolled == Bucket(chatbot.periodicity, DateOf(task[t].last))
                                # Bucket(chatbot.periodicity, DateOf(now))
                IN /\ g.reset <=> rolled
                   /\ rolled => /\ g.count = 0 /\ g.last = now
                                /\ chatbot'.conversations_count = 0
                                /\ chatbot'.last_reset_date = now
                   /\ ~rolled => /\ g.count = task[t].count
                                 /\ g.last = task[t].last
                                 /\ chatbot' = chatbot
                   /\ g.ok <=> g.count < chatbot.max_conversations
                   /\ (task'[t].pc # "done") => g.ok
           /\ (task[t].pc = "llm" /\ task'[t].pc # "llm") =>
                /\ task[t].gate.ok
                /\ chatbot'.conversations_count = task[t].gate.count + 1
    ]_vars

\* The claim's example: monthly plan, last reset 2025-01-31, counter 999,
\* message on 2025-02-01: reset, processed, counter 1.
C15_Witness ==
    /\ chatbot.periodicity = "monthly"
    /\ \E t \in DOMAIN task :
         /\ Gated(t)
         /\ DateOf(task[t].gate.at) = [year |-> 2025, month |-> 2, day |-> 1]
         /\ task[t].gate.reset
         /\ task[t].pc = "save_name"
         /\ spawned[t].wamid = "w1"
    /\ Len(task) = 1
    /\ chatbot.passed = 1
    /\ chatbot.conversations_count = 1
    /\ chatbot.max_conversations = 1000

\* C16: for any interleaving of the chatbot tasks of one chatbot no
\* increment is lost and a rollover resets the counter once, so that
\* conversations_count is the number of messages that passed the gate
\* since the last reset.
C16_AtomicQuota == chatbot.conversations_count = chatbot.passed

\* C17: a webhook request answered 401, 400 or 404 changes no stored
\* state (no instance field, no message row, nothing forwarded), and every
\* request that is not so answered carried the admin secret and a sessionId
\* of a stored instance.
C17_RejectedNoChange ==
    [][\A p \in Procs :
         (proc[p].pc = "idle" /\ proc'[p].op = "webhook") =>
           \/ /\ proc'[p].resp.code \in {401, 400, 404}
              /\ proc'[p].pc = "done"
              /\ UNCHANGED <<tenants, instances, messages, forwarded, whOpen,
                             webhook, engineVars>>
           \/ /\ proc'[p].resp.code \notin {401, 400, 404}
              /\ proc'[p].ev.key = NODE_API_KEY
              /\ proc'[p].sess \in Sessions
              /\ instances[proc'[p].sess].exists
    ]_vars

C17_Witness ==
    /\ proc["p1"].op = "webhook" /\ proc["p1"].resp.code = 404
    /\ proc["p2"].op = "webhook" /\ proc["p2"].resp.code = 401
    /\ Len(messages) > 0
    /\ forwarded # {}

\* C18: on deletion the Bridge DELETE call is issued before the local rows
\* are removed, and the instance row and its webhook configuration are
\* removed whatever the outcome of the call (ok, error answer, transport
\* failure).
C18_DeleteOrder ==
    [][\A p \in Procs :
         /\ (proc[p].pc = "idle" /\ proc'[p].op = "delete") =>
              /\ proc'[p].sends = 1
              /\ proc'[p].first \in DeleteOutcomes
              /\ instances' = instances /\ webhook' = webhook
         /\ (proc[p].op = "delete" /\ proc[p].pc # "done" /\ proc'[p].pc = "done") =>
              /\ proc[p].sends = 1
              /\ ~instances'[proc[p].sess].exists
              /\ webhook'[proc[p].sess] = NoHook
              /\ proc'[p].resp.code = 204
    ]_vars

C18_Witness ==
    \E p \in Procs :
      /\ proc[p].op = "delete" /\ proc[p].pc = "done"
      /\ proc[p].first = "failed"
      /\ ~instances[proc[p].sess].exists
      /\ bridge[proc[p].sess].present

\* C19: every per-instance Bridge operation is sent in user mode, with the
\* instance token as bearer and without the admin key, whether the stored
\* token is present or absent.
PerInstanceOps == {"send_view", "send_text", "gateway"}

C19_UserMode ==
    \A p \in Procs :
      (proc[p].op \in PerInstanceOps /\ proc[p].sends > 0) =>
        /\ proc[p].hdr.authorization # None
        /\ ~proc[p].hdr.x_api_key

\* C20: a non-media Bridge call whose transport fails is retried, and the
\* failure is returned to the caller only after 3 attempts.
C20_TransportRetry ==
    \A p \in Procs :
      (proc[p].op \in PerInstanceOps /\ proc[p].pc = "done"
         /\ proc[p].sends > 0 /\ proc[p].resp.status = "fail") =>
        proc[p].attempts = 3

\* C21: a processed webhook event is POSTed to the tenant callback exactly
\* when the url is set and the type is message with send_messages, presence
\* with send_presence, or connection.update; the POST is made once, and with
\* the callback down the answer is still 'processed' and nothing else is
\* stored or changed.
C21_Forwarding ==
    [][\A p \in Procs :
         ( /\ proc[p].pc # "done" /\ proc'[p].pc = "done"
           /\ proc'[p].op = "webhook"
           /\ proc'[p].resp.code \notin {401, 400, 404}
           /\ proc'[p].resp.status # "plan_expired_ignored" ) =>
           LET s == proc'[p].sess
               type == proc'[p].ev.type
               conf == webhook[s]
               due == /\ conf.url
                      /\ \/ type = "message" /\ conf.send_messages
                         \/ type = "presence" /\ conf.send_presence
                         \/ type = "connection.update"
           IN /\ proc'[p].resp = Processed
              /\ proc'[p].posts = IF due THEN 1 ELSE 0
              /\ forwarded' = IF due THEN forwarded \cup {<<s, type>>}
                              ELSE forwarded
              /\ UNCHANGED <<tenants, webhook>>
              /\ type \in {"presence", "ack"} => UNCHANGED <<instances, messages>>
    ]_vars

C21_Witness ==
    /\ proc["p1"].op = "webhook" /\ proc["p1"].pc = "done"
    /\ proc["p1"].ev.type = "presence"
    /\ proc["p1"].posts = 1
    /\ ~webhook["s1"].up
    /\ proc["p1"].resp = Processed
    /\ <<"s1", "message">> \in forwarded
    /\ <<"s1", "connection.update">> \in forwarded

\* C22: when a text send of a reply still fails after the self-heal and
\* the retry, the engine sends no later message of that decision and no
\* media.
C22_AbortAfterFailure ==
    \A t \in DOMAIN task :
      \A i, j \in DOMAIN task[t].calls :
        ( /\ i < j
          /\ task[t].calls[i].kind = "text"
          /\ ~task[t].calls[i].ok
          /\ task[t].calls[i].reqs = 2 )
        => task[t].calls[j].kind \notin {"text", "quote", "media"}

\* C23: an engine call that the Bridge answers with the auth-denied marker
\* is followed by a self-heal and one retry of the call, and a call whose
\* final answer is a failure is reported as failed (stated on the quote and
\* reaction calls, whose answers the call rows keep).
C23_HealAndRetry ==
    \A t \in DOMAIN task :
      \A i \in DOMAIN task[t].calls :
        LET c == task[t].calls[i] IN
        /\ c.answer = "denied" => c.reqs = 2
        /\ c.answer \in {"denied", "fail"} => ~c.ok

\* C2: every stored Instance whose status is CONNECTED has a token, or a
\* handler that is about to run the token self-heal for it is in flight.
C2_ConnectedHasToken ==
    \A s \in Sessions :
      (instances[s].exists /\ instances[s].status = "CONNECTED")
        => (instances[s].token # None \/ HealPending(s))

C4_SelfHealToken ==
    \A p \in Procs :
      proc[p].synced # None =>
        LET out == proc[p].listed IN
        IF out.kind = "list" /\ out.entry.present /\ out.entry.token # None
        THEN proc[p].synced = "true" /\ proc[p].syncTok = out.entry.token
        ELSE proc[p].synced = "false"

C4_Witness ==
    \E p \in Procs :
      /\ proc[p].op = "webhook"
      /\ proc[p].synced = "true"
      /\ proc[p].syncTok = "T2"
      /\ instances[proc[p].sess].token = "T2"

\* C5: chatbot tasks of one (instance, remote_jid) pair are serialized: a
\* task has done nothing beyond being started while an earlier task of the
\* same pair is still running.
C5_Serialized ==
    \A t1, t2 \in DOMAIN task :
      ( t1 < t2 /\ task[t1].sess = task[t2].sess /\ task[t1].jid = task[t2].jid
        /\ task[t2].pc # "start" )
      => task[t1].pc = "done"

\* C6: in every state, whatever the interleaving of creation requests, no
\* tenant owns more instances than its plan's max_instances.
C6_InstanceLimit ==
    \A t \in Tenants :
      InstanceCount(instances, t) <= tenants[t].max_instances

\* C7: a status query that starts right after the webhook saved
\* connection.update{status: open, token: T}, with the Bridge reporting the
\* session open with token T, answers status CONNECTED and token T.
C7_RoundTrip ==
    \A p \in Procs :
      ( /\ proc[p].pc = "done"
        /\ proc[p].op = "poll"
        /\ proc[p].rt # None
        /\ proc[p].seen \in {"open", "CONNECTED"}
        /\ bridge[proc[p].sess].status = "open"
        /\ bridge[proc[p].sess].token = proc[p].rt
        /\ proc[p].synced # None =>
             /\ proc[p].listed.kind = "list"
             /\ proc[p].listed.entry.status = "open"
             /\ proc[p].listed.entry.token = proc[p].rt )
      => (proc[p].resp.status = "CONNECTED" /\ proc[p].resp.token = proc[p].rt)

\* C8: a webhook event for an instance whose owner is not plan-valid is
\* answered 200 plan_expired_ignored and leaves the Instance rows, the
\* Message rows and the tenant callback untouched.
C8_PlanExpiredFrame ==
    [][\A p \in Procs :
         ( /\ proc[p].pc = "idle"
           /\ proc'[p].op = "webhook"
           /\ proc'[p].sess # None
           /\ ~OwnerValid(instances[proc'[p].sess]) )
         => ( /\ proc'[p].pc = "done"
              /\ proc'[p].resp.code = 200
              /\ proc'[p].resp.status = "plan_expired_ignored"
              /\ instances' = instances
              /\ messages' = messages
              /\ forwarded' = forwarded )]_vars

C8_Witness ==
    \E p \in Procs :
      /\ proc[p].pc = "done"
      /\ proc[p].resp.status = "plan_expired_ignored"
      /\ proc[p].ev.status = "open"
      /\ instances[proc[p].sess].status = "CREATED"

RECURSIVE SentOf(_, _)
SentOf(final, log) ==
    IF log = <<>> THEN <<>>
    ELSE (IF Head(log) THEN <<Head(final)>> ELSE <<>>)
         \o SentOf(Tail(final), Tail(log))

RowsBy(t) == SelectSeq(messages, LAMBDA r : r.by = t)

\* C10: the rows a task's send loop has put into the history of its
\* conversation are, in this order, the messages of the reply sent so far
\* whose send reported success, each with from_me = true.
C10_HistoryOrder ==
    \A t \in DOMAIN task :
      task[t].path = "send" =>
        LET rows == RowsBy(t) IN
        /\ Len(rows) = Len(SentOf(task[t].final, task[t].log))
        /\ \A i \in 1..Len(rows) :
             /\ rows[i].content = SentOf(task[t].final, task[t].log)[i]
             /\ rows[i].from_me
             /\ rows[i].instance = task[t].sess
             /\ rows[i].remote_jid = task[t].jid

C10_Witness ==
    \E t \in DOMAIN task :
      /\ task[t].pc = "done" /\ task[t].final = <<"m1", "m2">>
      /\ task[t].log = <<TRUE, TRUE>>
      /\ Len(RowsBy(t)) = 2 /\ Len(messages) > 2

\* C24: the engine stores a from_me row only for an outbound message the
\* Bridge accepted: a rejected quote-reply, text or transfer message leaves
\* no row, and a rejected quote-reply is followed by a plain text send of
\* the same message.
C24_RowsOnlyAccepted ==
    \A t \in DOMAIN task :
      /\ \A i \in DOMAIN task[t].calls :
           LET c == task[t].calls[i] IN
           (c.kind = "quote" /\ c.answer # "ok") =>
             /\ i < Len(task[t].calls)
             /\ task[t].calls[i + 1].kind = "text"
             /\ task[t].calls[i + 1].n = c.n
      /\ Len(RowsBy(t)) =
           Cardinality({ i \in DOMAIN task[t].calls :
                           /\ task[t].calls[i].kind \in {"text", "quote", "media"}
                           /\ task[t].calls[i].ok
                           /\ task[t].calls[i].answer \in {None, "ok"} })

\* C25: token updates are field-scoped: when the stored token differs from
\* the copy a webhook handler read earlier and still holds, the save that
\* ends the handler does not put the handler's stale value in its place.
C25_NoStaleOverwrite ==
    [][\A p \in Procs :
         ( /\ proc[p].pc = "wh_sync"
           /\ proc'[p].pc = "done"
           /\ instances[proc[p].sess].token # None
           /\ instances[proc[p].sess].token # proc[p].inst.token )
         => instances'[proc[p].sess].token # proc[p].inst.token]_vars

CloseCleared(row) ==
    row.status = "DISCONNECTED" /\ row.token = None /\ row.phone_connected = None

\* C26: whenever the Bridge reports status close for a session, through the
\* webhook, the listener or the status poll, the stored Instance is
\* DISCONNECTED with token and phone_connected cleared, and the same holds
\* after the disconnect action whatever the Bridge answered.
C26_CloseClears ==
    [][/\ \A p \in Procs :
            ( /\ proc[p].pc # "done"
              /\ proc'[p].pc = "done"
              /\ \/ /\ proc'[p].op = "webhook"
                    /\ proc'[p].resp = Processed
                    /\ proc'[p].ev.status = "close"
                 \/ /\ proc'[p].op = "poll"
                    /\ proc'[p].seen = "close"
                 \/ proc'[p].op = "disconnect" )
            => CloseCleared(instances'[proc'[p].sess])
       /\ \A s \in Sessions, ev \in LsConnEvents :
            (ev.status = "close" /\ ListenerConnOf(s, ev))
            => CloseCleared(instances'[s])]_vars

\* C27: a sweep changes an Instance only when GET /sessions succeeded and
\* answered a list, and it marks an Instance DISCONNECTED with its token
\* cleared only when that list does not contain the session.
C27_SweepNeedsList ==
    [][\A k \in {"fail", "notlist", "list"} :
         MonitorSweepOf(k) =>
           \A s \in Sessions :
             instances'[s] # instances[s] =>
               /\ k = "list"
               /\ ( /\ instances[s].token # None
                    /\ instances'[s].token = None
                    /\ instances'[s].status = "DISCONNECTED" ) => ~bridge[s].present]_vars

\* The stored row of a session present in the list after a sweep, given
\* the row before, the list entry and whether a changed status is forced.
SweptPresent(row, e, forced) ==
    LET real_status == _map_node_status_to_django(e.status) IN
    [row EXCEPT !.status = IF real_status = None \/ real_status = row.status THEN @
                           ELSE IF forced THEN "DISCONNECTED" ELSE real_status,
                !.token = IF e.token # None THEN e.token ELSE @,
                !.phone_connected = IF e.phoneNumber # None THEN e.phoneNumber ELSE @]

SweptAbsent(row) ==
    IF row.status = "CONNECTED"
    THEN [row EXCEPT !.status = "DISCONNECTED", !.token = None, !.phone_connected = None]
    ELSE IF row.status = "QR_SCANNED" THEN [row EXCEPT !.status = "DISCONNECTED"]
    ELSE row

SweepOverList(p) ==
    proc[p].pc = "idle" /\ proc'[p].op = "sweep" /\ proc'[p].listed.kind = "list"

\* C28 (amended): after a sweep over a fetched list, an absent Instance
\* that was CONNECTED is DISCONNECTED with token and phone cleared, an
\* absent QR_SCANNED one is DISCONNECTED, other absent ones are unchanged,
\* and a present one has the remote token when one is given and the
\* normalized remote status, except that a status change of an Instance
\* whose owner is not plan-valid is stored as DISCONNECTED.
C28_SweepResult ==
    [][\A p \in Procs : SweepOverList(p) =>
         \A s \in Sessions :
           instances'[s] =
             IF bridge[s].present
             THEN SweptPresent(instances[s], bridge[s], ~OwnerValid(instances[s]))
             ELSE SweptAbsent(instances[s])]_vars

C28_Witness ==
    \E p \in Procs : \E s \in Sessions \ {proc[p].sess} :
      /\ proc[p].pc = "done" /\ proc[p].op = "sweep"
      /\ proc[p].listed.kind = "list"
      /\ proc[p].listed.entry.present /\ proc[p].listed.entry.token = "T2"
      /\ proc[p].inst.status = "CONNECTED" /\ proc[p].inst.token = "T1"
      /\ instances[proc[p].sess].status = "CONNECTED"
      /\ instances[proc[p].sess].token = "T2"
      /\ ~bridge[s].present
      /\ instances[s].status = "DISCONNECTED"

\* C28 as stated: a present Instance always ends with the normalized
\* remote status.
C28_PresentStatus ==
    [][\A p \in Procs : SweepOverList(p) =>
         \A s \in Sessions :
           instances'[s] =
             IF bridge[s].present
             THEN SweptPresent(instances[s], bridge[s], FALSE)
             ELSE SweptAbsent(instances[s])]_vars

CallsOf(t, kinds) == { i \in DOMAIN task[t].calls : task[t].calls[i].kind \in kinds }

\* The order of the calls of a reply without the presence calls: nothing
\* is sent before the name is saved, the reaction comes first and only for
\* an allowed emoji with a message key, the texts follow in array order and
\* the media call comes after them.
ReplyOrder(t) ==
    LET c == task[t].calls
        d == task[t].decision
    IN /\ task[t].pc = "save_name" =>
            CallsOf(t, {"reaction", "text", "quote", "media"}) = {}
       /\ (task[t].pc # "save_name" /\ d.save_name # None /\ _validate_name(d.save_name))
            => contacts[task[t].jid].push_name = d.save_name
       /\ CallsOf(t, {"reaction"}) # {} <=>
            /\ task[t].pc \notin {"save_name", "react"}
            /\ d.reaction_emoji \in ALLOWED_REACTIONS
            /\ task[t].message_key
       /\ \A i \in CallsOf(t, {"reaction"}) :
            \A j \in CallsOf(t, {"text", "quote", "media"}) : i < j
       /\ \A i \in CallsOf(t, {"text", "quote"}) :
            /\ \A j \in CallsOf(t, {"media"}) : i < j
            /\ \A j \in CallsOf(t, {"text", "quote"}) : i < j => c[i].n <= c[j].n
       /\ CallsOf(t, {"media"}) # {} =>
            /\ task[t].pc = "done"
            /\ c[Len(c)].kind = "media"
            /\ chatbot.allow_media_response /\ d.send_media_id # None

\* C29: for a decision without transfer_url the validated save_name is
\* persisted first, then the reaction is sent (only for an allowed emoji and
\* a known message key), then the texts in array order, each message after
\* the first one preceded by its delay with a composing presence, and the
\* media file last.
C29_EffectOrder ==
    \A t \in DOMAIN task :
      (task[t].pc \in {"save_name", "react", "send", "media", "done"}
         /\ ~task[t].decision.transfer) =>
        /\ ReplyOrder(t)
        /\ \A j \in CallsOf(t, {"text", "quote"}) :
             LET c == task[t].calls IN
             (c[j].n > 1 /\ DelayBefore(task[t].decision, c[j].n - 1) > 0) =>
               \E k \in CallsOf(t, {"composing"}) :
                 /\ k < j
                 /\ \A i \in CallsOf(t, {"text", "quote"}) : c[i].n < c[j].n => i < k

\* C30: for a decision with a transfer_url the engine makes exactly one
\* text send, of the transfer template, and stops: no message of the
\* decision is sent or stored and no media call is made.
C30_TransferOnly ==
    \A t \in DOMAIN task :
      (task[t].decision.transfer
         /\ task[t].pc \in {"save_name", "react", "transfer", "send", "media", "done"}) =>
        /\ task[t].pc \notin {"send", "media"}
        /\ CallsOf(t, {"quote", "media"}) = {}
        /\ Cardinality(CallsOf(t, {"text"})) = IF task[t].pc = "done" THEN 1 ELSE 0
        /\ \A i \in CallsOf(t, {"text"}) :
             task[t].calls[i].n = 1 /\ i = Len(task[t].calls)
        /\ Len(RowsBy(t)) <= 1
        /\ \A i \in DOMAIN RowsBy(t) : RowsBy(t)[i].content = "transfer"

C30_Witness ==
    \E t \in DOMAIN task :
      /\ task[t].pc = "done"
      /\ task[t].decision.transfer
      /\ task[t].decision.messages = <<"m1", "m2">>
      /\ task[t].decision.send_media_id = "med1"
      /\ chatbot.allow_media_response
      /\ Cardinality(CallsOf(t, {"text"})) = 1
      /\ task[t].log = <<TRUE>>
      /\ Len(RowsBy(t)) = 1

\* A task stopped at the gates: no Bridge call, no model call, no contact
\* write, no counter increment and no stored reply.
StoppedAtGate(t) ==
    /\ task[t].pc \in {"start", "done"}
    /\ task[t].calls = <<>>
    /\ task[t].decision = NoDecision
    /\ task[t].count = task[t].gate.count
    /\ RowsBy(t) = <<>>

TokenGated == chatbot.token_usage_type # "infinity"

\* C31: whenever token_usage_type is not infinity and current_tokens_used
\* has reached token_limit, whatever the limit (0 included), the task stops
\* before any Bridge call, model call, contact write or counter increment.
C31_TokenGate ==
    (TokenGated /\ chatbot.current_tokens_used >= chatbot.token_limit) =>
      /\ \A t \in DOMAIN task : StoppedAtGate(t)
      /\ \A j \in Jids : ~contacts[j].exists
      /\ chatbot.conversations_count = 0

\* C32: once the usage of the replies so far has brought the tokens used
\* from below token_limit to or above it (kind not infinity), the reply in
\* flight still finishes and an inbound message arriving afterwards is
\* stopped by the token gate.
C32_NextGated ==
    \A t \in DOMAIN task :
        ( /\ TokenGated
          /\ chatbot.current_tokens_used < chatbot.token_limit
          /\ task[t].due >= chatbot.token_limit
          /\ task[t].pc # "start" ) => StoppedAtGate(t)

\* A webhook request that answered "processed" to an inbound message event.
AcceptedInbound(p) ==
    /\ proc[p].pc = "done"
    /\ proc[p].op = "webhook"
    /\ proc[p].ev.type = "message"
    /\ ~proc[p].ev.fromMe
    /\ proc[p].resp = Processed

\* C33: every inbound message event (fromMe false) that the webhook endpoint
\* accepted for a plan-valid instance has been handed to the chatbot engine
\* by the endpoint, with or without a wamid; an event without wamid creates
\* no Message row.
C33_WebhookHandsOver ==
    \A p \in Procs :
        AcceptedInbound(p) =>
          /\ \E i \in DOMAIN spawned :
                /\ spawned[i].via = "webhook"
                /\ spawned[i].wamid = proc[p].ev.wamid
                /\ spawned[i].jid = proc[p].ev.jid
          /\ \A i \in DOMAIN messages : messages[i].wamid # None

\* The positions of the presence posts among the calls of a task.
PresenceAt(t) ==
    { i \in DOMAIN task[t].calls : task[t].calls[i].kind \in {"composing", "paused"} }

\* C34: for every finished task that simulated typing, paused is the last
\* presence the Bridge got from it: no composing post of a keepalive thread
\* follows the paused post that ended it.
C34_PausedLast ==
    \A t \in DOMAIN task :
        (task[t].pc = "done" /\ PresenceAt(t) # {}) =>
          \A i \in PresenceAt(t) :
              (\A j \in PresenceAt(t) : j <= i) => task[t].calls[i].kind = "paused"

\* C35: every engine start belongs to a stored inbound row (from_me false)
\* of its wamid, and no wamid has two engine starts, however often the
\* event is delivered again and whatever echoes of outbound messages arrive.
C35_NoSelfReply ==
    /\ \A i \in DOMAIN spawned :
          \E k \in DOMAIN messages :
              /\ messages[k].wamid = spawned[i].wamid
              /\ ~messages[k].from_me
    /\ \A i, j \in DOMAIN spawned :
          spawned[i].wamid = spawned[j].wamid => i = j

\* The engine ran once for w1, then the listener handled the stored echo w2
\* (fromMe true, with text) and w1 was delivered again to the webhook.
C35_Witness ==
    /\ Len(spawned) = 1
    /\ spawned[1].wamid = "w1"
    /\ \E k \in DOMAIN messages :
          messages[k].wamid = "w2" /\ messages[k].from_me /\ messages[k].content = "hi"
    /\ proc["p2"].pc = "done" /\ proc["p2"].op = "listener"
    /\ proc["p2"].ev.wamid = "w2" /\ proc["p2"].ev.fromMe
    /\ proc["p1"].pc = "done" /\ proc["p1"].op = "webhook"
    /\ proc["p1"].ev.wamid = "w1" /\ ~proc["p1"].ev.fromMe

\* The task whose model call raised.
Raised(t) == task[t].path = "raised"

\* C36: a task whose model call raised has stopped: the Bridge got only its
\* read receipts and presence posts (no text, quote, reaction or media), it
\* stored no from_me row, and with typing simulation its keepalive was
\* stopped and paused was posted.
C36_SilentStop ==
    \A t \in DOMAIN task :
        Raised(t) =>
          /\ task[t].pc = "done"
          /\ \A i \in DOMAIN task[t].calls :
                task[t].calls[i].kind \in {"messages_read", "chat_read",
                                           "composing", "paused"}
          /\ RowsBy(t) = <<>>
          /\ task[t].final = <<>>
          /\ chatbot.simulate_typing =>
                Cardinality({ i \in PresenceAt(t) :
                                task[t].calls[i].kind = "paused" }) = 1

C36_Witness ==
    \E t \in DOMAIN task :
        /\ Raised(t)
        /\ task[t].message_key
        /\ chatbot.simulate_typing
        /\ \E i \in PresenceAt(t) : task[t].calls[i].kind = "composing"

\* The characters of some texts one after the other, blanks left out.
RECURSIVE Letters(_)
Letters(texts) ==
    IF texts = <<>> THEN <<>>
    ELSE SelectSeq(Head(texts), LAMBDA c : c \notin Blank) \o Letters(Tail(texts))

IsPrefix(a, b) == Len(a) <= Len(b) /\ SubSeq(b, 1, Len(a)) = a

\* The pieces of one text: each within the limit, at most thirteen, and
\* their letters those of the text in its order, up to a cut of the last.
InOrder(pieces, text) ==
    /\ \A i \in DOMAIN pieces : Len(pieces[i]) <= MAX_AI_CHARS_PER_MESSAGE
    /\ Len(pieces) <= HARD_MAX_MESSAGES_PER_REPLY * 3 + 1
    /\ LET got == Letters(pieces)
           src == Letters(<<text>>)
       IN IF got # <<>> /\ got[Len(got)] = Ellipsis
          THEN IsPrefix(SubSeq(got, 1, Len(got) - 1), src)
          ELSE got = src

\* C37: whatever messages the decision carries, the reply has at most 4
\* texts of at most 750 characters each, at most 4 text sends are made and
\* every stored text is within the limit; the split of every message, seen
\* when the reply has just been split, ended and kept its pieces in the
\* order of the message.
C37_ReplyBounded ==
    \A t \in DOMAIN task :
        task[t].path = "send" =>
          /\ Len(task[t].final) <= HARD_MAX_MESSAGES_PER_REPLY
          /\ Len(task[t].final) >= 1
          /\ \A i \in DOMAIN task[t].final :
                Len(task[t].final[i]) <= MAX_AI_CHARS_PER_MESSAGE
          /\ Cardinality({ i \in DOMAIN task[t].calls :
                             task[t].calls[i].kind \in {"text", "quote"}
                             /\ task[t].calls[i].ok }) <= HARD_MAX_MESSAGES_PER_REPLY
          /\ \A i \in DOMAIN RowsBy(t) :
                Len(RowsBy(t)[i].content) <= MAX_AI_CHARS_PER_MESSAGE
          /\ \/ task[t].final = <<FallbackRepeat>>
             \/ IsPrefix(Letters(task[t].final), Letters(task[t].decision.messages))
          /\ \A i \in DOMAIN task[t].decision.messages :
                task[t].idx = 0 =>
                InOrder(_split_long_message(task[t].decision.messages[i],
                                            MAX_AI_CHARS_PER_MESSAGE),
                        task[t].decision.messages[i])

\* A reply of thirteen pieces, the last one cut, was capped to four texts
\* and all four were sent.
C37_Witness ==
    \E t \in DOMAIN task :
        /\ task[t].pc = "done" /\ task[t].path = "send"
        /\ task[t].decision.messages = <<Thirteen>>
        /\ Len(_split_long_message(Thirteen, MAX_AI_CHARS_PER_MESSAGE)) = 13
        /\ task[t].final = << <<"x">>, Rep("b", 750), <<"x">>, Rep("b", 750) >>
        /\ Len(RowsBy(t)) = 4

\* The step of request p in which create_session failed.
StartFailed(p) ==
    /\ proc[p].pc = "cr_start"
    /\ proc'[p].pc = "done"
    /\ proc'[p].resp.code # 201

\* C38: when the Bridge session start of a creation request fails, the
\* request answers with an error, the attempted Instance row and its
\* WebhookConfig are gone, no other row changed, and the tenant has as many
\* instances as it has without the attempted one.
C38_FailedStartLeavesNothing ==
    [][\A p \in Procs :
         StartFailed(p) =>
           LET s == proc[p].sess
               t == proc[p].rt
           IN /\ proc'[p].resp.code = 500
              /\ ~instances'[s].exists
              /\ webhook'[s] = NoHook
              /\ \A o \in Sessions \ {s} : instances'[o] = instances[o]
              /\ InstanceCount(instances', t) =
                   Cardinality({ o \in Sessions \ {s} :
                                   instances[o].exists /\ instances[o].owner = t })]_vars

\* A creation request answered 500 and its row is not there.
C38_Witness ==
    \E p \in Procs :
        /\ proc[p].pc = "done" /\ proc[p].op = "create"
        /\ proc[p].resp.code = 500
        /\ ~instances[proc[p].sess].exists
        /\ webhook[proc[p].sess] = NoHook
        /\ InstanceCount(instances, proc[p].rt) = 0

====
